---------------------------- MODULE Spec2Model ----------------------------
(***************************************************************************)
(* Blob metadata of the nydus image service (storage/src/meta/mod.rs):     *)
(*   - the range queries over the chunk-information array                  *)
(*     (get_chunk_index_nocheck, get_chunks_uncompressed,                  *)
(*     get_chunks_compressed, add_more_chunks, validate_chunk);            *)
(*   - the creation of the `<blob>.blob.meta` file by BlobMetaInfo::new    *)
(*     and its concurrent read-only opens;                                 *)
(*   - the packed 16-byte chunk record (BlobChunkInfoV1Ondisk).            *)
(*                                                                         *)
(* Indices are 0-based as in the Rust code; TLA+ sequences are 1-based,    *)
(* so At(s, i) reads s[i + 1].                                             *)
(***************************************************************************)
EXTENDS Integers, Sequences, FiniteSets, TLC

VARIABLES
    state,      \* BlobMetaState: chunks, chunk_count, sizes, is_stargz
    call,       \* the last query made on `state` and its arguments
    ret,        \* the value that query returned
    info,       \* BlobInfo handed to BlobMetaInfo::new, with the backend's array
    file,       \* the `<blob>.blob.meta` file as seen through the shared mapping
    disk,       \* the contents of that file that have reached stable storage
    wpc,        \* per writer (new with a reader): the statement it is at
    widx,       \* per writer: number of array entries copied by read_metadata
    wres,       \* per writer: the value new() returned
    rpc,        \* read-only open (new with reader = None): the statement it is at
    rmapped,    \* read-only open: the file was mapped, the header is inspected
    rres,       \* read-only open: the value new() returned
    chunk,      \* a BlobChunkInfoV1Ondisk record the setters are applied to
    shadow,     \* per field of `chunk`: the value last set, if any
    ci_array,   \* a BlobMetaChunkArray::V1 built by add_v1
    ci_args,    \* the arguments of the add_v1 calls that built ci_array
    fs,         \* the files of the blob storage: path -> bytes
    writer,     \* the live BlobBufferWriter, if any
    appended,   \* the bytes handed to write_all of the live or last writer
    wcall,      \* the last operation on a BlobBufferWriter and its arguments
    wret,       \* what that operation returned
    builds,     \* number of BlobBufferWriters created so far
    bld,        \* the image build: its options, its phase, the layer it is at
    blob_mgr,   \* BlobManager: the blob contexts in slot order
    chunk_dict, \* the chunk dictionary's map from its blob indexes to real ones
    chunk_cache,\* digest -> the chunk record written for it to the current blob
    nodes,      \* the regular files dumped so far, with their chunk lists
    bootstrap,  \* what dump_bootstrap wrote to the bootstrap, and its last call
    cmd         \* the create command: its arguments, its I/O and its result

qvars == <<state, call, ret>>

mvars == <<info, file, disk, wpc, widx, wres, rpc, rmapped, rres>>

cvars == <<chunk, shadow, ci_array, ci_args>>

wvars == <<fs, writer, appended, wcall, wret, builds>>

dvars == <<bld, blob_mgr, chunk_dict, chunk_cache, nodes>>

evars == <<bootstrap, cmd>>

bvars == <<wvars, dvars, evars>>

vars == <<state, call, ret, info, file, disk, wpc, widx, wres, rpc, rmapped, rres,
          chunk, shadow, ci_array, ci_args, fs, writer, appended, wcall, wret, builds,
          bld, blob_mgr, chunk_dict, chunk_cache, nodes, bootstrap, cmd>>

(***************************************************************************)
(* Bounds of the model.                                                    *)
(***************************************************************************)
\* Largest number of chunk records in a modelled blob.
MaxChunks == 3
\* Largest chunk count of a blob whose meta file is created.
MaxEntries == 2
\* Width of the modelled address word.  The code uses u64; TLC's integers
\* are 32-bit, so addresses are narrowed and checked_add overflows at
\* 2^AddrBits.
AddrBits == 22

\* Number of BlobBufferWriters created one after the other on one storage.
MaxBuilds == 2
\* Largest number of write_all calls on one BlobBufferWriter.
MaxWrites == 2
\* Largest number of layers of a diff build.
MaxLayers == 2
\* Largest number of regular files in the layers of a build.
MaxNodes == 3

\* Width of the modelled chunk and blob counters.  The code uses u32;
\* the counters are narrowed so that a blob can be filled up to the limit.
CountBits == 4

U64_MAX == 2 ^ AddrBits - 1

U32_MAX == 2 ^ CountBits - 1

None == [some |-> FALSE]
Some(v) == [some |-> TRUE, val |-> v]

\* u64::checked_add
checked_add(a, b) == IF b > U64_MAX - a THEN None ELSE Some(a + b)

Min(a, b) == IF a <= b THEN a ELSE b

At(s, i) == s[i + 1]

\* round_up_4k: (val + 0xfff) & !0xfff
round_up_4k(val) == ((val + 4095) \div 4096) * 4096

(***************************************************************************)
(* Results.  Every error of this file is made by einval!, except the       *)
(* "not ready" error of BlobMetaInfo::new, made by enoent!.                *)
(***************************************************************************)
Ok(v) == [ok |-> TRUE, val |-> v]
Err(kind) == [ok |-> FALSE, err |-> kind]

(***************************************************************************)
(* BlobMetaChunkInfo: the accessors of a chunk record as the queries see   *)
(* it.  A record is held decoded: compressed_offset, compressed_size,      *)
(* uncompressed_offset, uncompressed_size.                                 *)
(***************************************************************************)
compressed_end(c) == c.compressed_offset + c.compressed_size

uncompressed_end(c) == c.uncompressed_offset + c.uncompressed_size

aligned_uncompressed_end(c) == round_up_4k(uncompressed_end(c))

\* BlobMetaChunk::new(index, &self.state): id() and blob_index()
BlobMetaChunk(index, st) == [id |-> index, blob_index |-> st.blob_index]

(***************************************************************************)
(* BlobMetaState::get_chunk_index_nocheck                                  *)
(***************************************************************************)
\* Mutant: the comparison `start > addr` taken as `start >= addr`.
BsearchStart_Exclusive(entry, compressed) ==
    (IF compressed THEN entry.compressed_offset ELSE entry.uncompressed_offset) + 1

BsearchStart(entry, compressed) ==
    IF compressed THEN entry.compressed_offset ELSE entry.uncompressed_offset

\* Mutant: the comparison `end <= addr` taken as `end < addr`.
BsearchEnd_Inclusive(entry, compressed) ==
    (IF compressed THEN compressed_end(entry) ELSE uncompressed_end(entry)) + 1

BsearchEnd(entry, compressed) ==
    IF compressed THEN compressed_end(entry) ELSE uncompressed_end(entry)

\* Mutant: the probe is taken at the upper end of the range.
BsearchMid_Upper(left, size) == left + size

\* "let mid = left + size / 2;"
BsearchMid(left, size) == left + size \div 2

RECURSIVE BsearchLoop(_, _, _, _, _, _)
BsearchLoop(st, left, right, size, addr, compressed) ==
    IF left < right
    THEN LET mid == BsearchMid(left, size)
             entry == At(st.chunks, mid)
             start == BsearchStart(entry, compressed)
             end == BsearchEnd(entry, compressed)
         IN  IF start > addr
             THEN BsearchLoop(st, left, mid, mid - left, addr, compressed)
             ELSE IF end <= addr
             THEN BsearchLoop(st, mid + 1, right, right - (mid + 1), addr, compressed)
             ELSE Ok(mid)
    ELSE Err("einval")

get_chunk_index_nocheck(st, addr, compressed) ==
    BsearchLoop(st, 0, st.chunk_count, st.chunk_count, addr, compressed)

\* The turns of the loop of get_chunk_index_nocheck: for each turn the
\* values of left, right and size it starts with and the index it reads
\* with get_unchecked.  A read outside the array is undefined behaviour:
\* the list ends with it.
RECURSIVE BsearchProbes(_, _, _, _, _, _)
BsearchProbes(st, left, right, size, addr, compressed) ==
    IF left < right
    THEN LET mid == BsearchMid(left, size)
             probe == [left |-> left, right |-> right, size |-> size, mid |-> mid]
         IN  IF mid < 0 \/ mid >= Len(st.chunks) THEN <<probe>>
             ELSE LET entry == At(st.chunks, mid)
                      start == BsearchStart(entry, compressed)
                      end == BsearchEnd(entry, compressed)
                  IN  IF start > addr
                      THEN <<probe>> \o BsearchProbes(st, left, mid, mid - left,
                                                      addr, compressed)
                      ELSE IF end <= addr
                      THEN <<probe>> \o BsearchProbes(st, mid + 1, right,
                                                      right - (mid + 1), addr, compressed)
                      ELSE <<probe>>
    ELSE <<>>

(***************************************************************************)
(* BlobMetaInfo::validate_chunk                                            *)
(***************************************************************************)
\* Mutant: the uncompressed end is not validated.
validate_chunk_CompressedOnly(st, entry) ==
    IF ~st.is_stargz /\ compressed_end(entry) > st.compressed_size
    THEN Err("einval")
    ELSE Ok(TRUE)

validate_chunk(st, entry) ==
    IF (~st.is_stargz /\ compressed_end(entry) > st.compressed_size)
       \/ uncompressed_end(entry) > st.uncompressed_size
    THEN Err("einval")
    ELSE Ok(TRUE)

\* Mutant: batch_end is computed from batch_size also when batch_size <= size.
BatchEnd_IgnoresSize(start, size, batch_size, end, total) ==
    LET e == checked_add(start, batch_size)
    IN  Min(IF e.some THEN e.val ELSE end, total)

\* Mutant: without batch the queries go on to the end of the blob.
BatchEnd_WholeBlob(start, size, batch_size, end, total) ==
    IF batch_size <= size
    THEN total
    ELSE LET e == checked_add(start, batch_size)
         IN  Min(IF e.some THEN e.val ELSE end, total)

\* batch_end of both range queries
BatchEnd(start, size, batch_size, end, total) ==
    IF batch_size <= size
    THEN end
    ELSE LET e == checked_add(start, batch_size)
         IN  Min(IF e.some THEN e.val ELSE end, total)

\* Mutant: the queries go on up to batch_end whatever the next chunk is.
TooBig_Never(last_end, end, entry_end, batch_end) == FALSE

\* "Avoid read amplify if next chunk is too big."
TooBig(last_end, end, entry_end, batch_end) ==
    last_end >= end /\ entry_end > batch_end

(***************************************************************************)
(* BlobMetaInfo::get_chunks_uncompressed                                   *)
(***************************************************************************)
\* Mutant: the stargz flag is tested the wrong way round.
UncompressedGap_Inverted(st, entry, last_end) ==
    st.is_stargz /\ entry.uncompressed_offset # last_end

\* Mutant: a gap is an error on stargz blobs too.
UncompressedGap_Always(st, entry, last_end) ==
    entry.uncompressed_offset # last_end

\* "For stargz chunks, disable this check."
UncompressedGap(st, entry, last_end) ==
    ~st.is_stargz /\ entry.uncompressed_offset # last_end

RECURSIVE UncompressedLoop(_, _, _, _, _, _)
UncompressedLoop(st, index, vec, last_end, end, batch_end) ==
    IF index + 1 < Len(st.chunks)
    THEN LET i == index + 1
             entry == At(st.chunks, i)
         IN  IF ~validate_chunk(st, entry).ok
             THEN Err("einval")
             ELSE IF UncompressedGap(st, entry, last_end)
             THEN Err("einval")
             ELSE IF TooBig(last_end, end, aligned_uncompressed_end(entry), batch_end)
             THEN Ok(vec)
             ELSE LET vec2 == Append(vec, BlobMetaChunk(i, st))
                      last2 == aligned_uncompressed_end(entry)
                  IN  IF last2 >= batch_end
                      THEN Ok(vec2)
                      ELSE UncompressedLoop(st, i, vec2, last2, end, batch_end)
    ELSE Err("einval")

get_chunks_uncompressed(st, start, size, batch_size) ==
    LET e == checked_add(start, size)
    IN  IF ~e.some THEN Err("einval")
        ELSE IF e.val > st.uncompressed_size THEN Err("einval")
        ELSE
        LET end == e.val
            batch_end == BatchEnd(start, size, batch_size, end, st.uncompressed_size)
            found == get_chunk_index_nocheck(st, start, FALSE)
        IN  IF ~found.ok THEN found
            ELSE IF ~(found.val < Len(st.chunks)) THEN Err("panic")
            ELSE
            LET index == found.val
                entry == At(st.chunks, index)
            IN  IF ~validate_chunk(st, entry).ok THEN Err("einval")
                ELSE IF ~(entry.uncompressed_offset <= start) THEN Err("panic")
                ELSE IF ~(uncompressed_end(entry) > start) THEN Err("panic")
                ELSE
                LET vec == <<BlobMetaChunk(index, st)>>
                    last_end == aligned_uncompressed_end(entry)
                IN  IF last_end >= batch_end
                    THEN Ok(vec)
                    ELSE UncompressedLoop(st, index, vec, last_end, end, batch_end)

(***************************************************************************)
(* BlobMetaInfo::get_chunks_compressed                                     *)
(***************************************************************************)
RECURSIVE CompressedLoop(_, _, _, _, _, _)
CompressedLoop(st, index, vec, last_end, end, batch_end) ==
    IF index + 1 < Len(st.chunks)
    THEN LET i == index + 1
             entry == At(st.chunks, i)
         IN  IF ~validate_chunk(st, entry).ok
             THEN Err("einval")
             ELSE IF entry.compressed_offset # last_end
             THEN Err("einval")
             ELSE IF TooBig(last_end, end, compressed_end(entry), batch_end)
             THEN Ok(vec)
             ELSE LET vec2 == Append(vec, BlobMetaChunk(i, st))
                      last2 == compressed_end(entry)
                  IN  IF last2 >= batch_end
                      THEN Ok(vec2)
                      ELSE CompressedLoop(st, i, vec2, last2, end, batch_end)
    ELSE Err("einval")

get_chunks_compressed(st, start, size, batch_size) ==
    LET e == checked_add(start, size)
    IN  IF ~e.some THEN Err("einval")
        ELSE IF e.val > st.compressed_size THEN Err("einval")
        ELSE
        LET end == e.val
            batch_end == BatchEnd(start, size, batch_size, end, st.compressed_size)
            found == get_chunk_index_nocheck(st, start, TRUE)
        IN  IF ~found.ok THEN found
            ELSE
            LET index == found.val
                entry == At(st.chunks, index)
            IN  IF ~validate_chunk(st, entry).ok THEN Err("einval")
                ELSE
                LET vec == <<BlobMetaChunk(index, st)>>
                    last_end == compressed_end(entry)
                IN  IF last_end >= batch_end
                    THEN Ok(vec)
                    ELSE CompressedLoop(st, index, vec, last_end, end, batch_end)

(***************************************************************************)
(* BlobMetaInfo::add_more_chunks                                           *)
(***************************************************************************)
\* Mutant: a chunk is appended even when it ends past batch_end.
RECURSIVE AddMoreLoop_OverBudget(_, _, _, _, _)
AddMoreLoop_OverBudget(st, index, vec, last_end, batch_end) ==
    IF index + 1 < Len(st.chunks)
    THEN LET i == index + 1
             entry == At(st.chunks, i)
         IN  IF ~validate_chunk(st, entry).ok \/ entry.compressed_offset # last_end
             THEN vec
             ELSE LET vec2 == Append(vec, BlobMetaChunk(i, st))
                      last2 == compressed_end(entry)
                  IN  IF last2 >= batch_end
                      THEN vec2
                      ELSE AddMoreLoop_OverBudget(st, i, vec2, last2, batch_end)
    ELSE vec

RECURSIVE AddMoreLoop(_, _, _, _, _)
AddMoreLoop(st, index, vec, last_end, batch_end) ==
    IF index + 1 < Len(st.chunks)
    THEN LET i == index + 1
             entry == At(st.chunks, i)
         IN  IF ~validate_chunk(st, entry).ok \/ entry.compressed_offset # last_end
             THEN vec
             ELSE IF compressed_end(entry) > batch_end
             THEN vec
             ELSE LET vec2 == Append(vec, BlobMetaChunk(i, st))
                      last2 == compressed_end(entry)
                  IN  IF last2 >= batch_end
                      THEN vec2
                      ELSE AddMoreLoop(st, i, vec2, last2, batch_end)
    ELSE vec

add_more_chunks(st, chunks, max_size) ==
    LET index == chunks[Len(chunks)].id
        entry == At(st.chunks, index)
    IN  IF ~validate_chunk(st, entry).ok THEN None
        ELSE
        LET end == compressed_end(entry)
        IN  IF end > st.compressed_size THEN None
            ELSE
            LET e == checked_add(end, max_size)
                batch_end == Min(IF e.some THEN e.val ELSE end, st.compressed_size)
            IN  IF batch_end <= end THEN None
                ELSE Some(AddMoreLoop(st, index, chunks, end, batch_end))

(***************************************************************************)
(* BlobMetaInfo::new: creation of the `<blob>.blob.meta` file by a writer  *)
(* (new called with a backend reader) and read-only opens of the same      *)
(* file (reader = None).  The file is shared through a memory mapping, so  *)
(* every store of the writer is visible to a concurrent open at once, and  *)
(* reaches stable storage with sync_data.                                  *)
(***************************************************************************)
\* 0xb10b_b10b, kept as two 16-bit halves
BLOB_METADATA_MAGIC == <<45323, 45323>>

ZeroWord == <<0, 0>>

BLOB_METADATA_HEADER_SIZE == 4096

RAFS_MAX_CHUNK_SIZE == 16777216

BLOB_METADATA_V1_MAX_SIZE == RAFS_MAX_CHUNK_SIZE * 16

\* size_of::<BlobChunkInfoV1Ondisk>()
ChunkInfoSize == 16

\* The header fields new() reads and writes (BlobMetaHeaderOndisk), zeroed.
ZeroHeader ==
    [s_magic |-> ZeroWord, s_features |-> 0, s_ci_offset |-> 0,
     s_ci_compressed_size |-> 0, s_ci_uncompressed_size |-> 0,
     s_magic2 |-> ZeroWord]

NoFile == [exists |-> FALSE, len |-> 0, array |-> <<>>, header |-> ZeroHeader]

\* What sync_data leaves on stable storage.
Contents(f) == [array |-> f.array, header |-> f.header]

\* The blobs a meta file is created for.  `array` is the chunk-record array
\* the backend holds at meta_ci_offset, one non-zero token per 16-byte
\* record (a zero token is a zero-filled record of the file).
BlobInfos ==
    { [chunk_count                |-> n,
       meta_flags                 |-> flags,
       meta_ci_offset             |-> off,
       meta_ci_compressed_size    |-> IF algo = "None" THEN usize ELSE usize - 4,
       meta_ci_uncompressed_size  |-> usize,
       meta_ci_compressor         |-> algo,
       array                      |-> [i \in 1..n |-> i]] :
        n \in 0..MaxEntries, flags \in {0, 1}, off \in {0, 8192},
        algo \in {"None", "Lz4Block"},
        usize \in { k * ChunkInfoSize : k \in 1..MaxEntries } }

info_size(bi) == bi.meta_ci_uncompressed_size

aligned_info_size(bi) == round_up_4k(info_size(bi))

expected_size(bi) == BLOB_METADATA_HEADER_SIZE + aligned_info_size(bi)

\* "blob metadata size is too big!"
BadInfoSize(bi) ==
    \/ info_size(bi) # bi.chunk_count * ChunkInfoSize
    \/ aligned_info_size(bi) > BLOB_METADATA_V1_MAX_SIZE

\* The value new() compares a header field with.
Expected(bi, field) ==
    CASE field = "s_magic" -> BLOB_METADATA_MAGIC
      [] field = "s_magic2" -> BLOB_METADATA_MAGIC
      [] field = "s_features" -> bi.meta_flags
      [] field = "s_ci_offset" -> bi.meta_ci_offset
      [] field = "s_ci_compressed_size" -> bi.meta_ci_compressed_size
      [] field = "s_ci_uncompressed_size" -> bi.meta_ci_uncompressed_size

\* The order in which the header condition of new() reads the fields.
HeaderChecks ==
    <<"s_magic", "s_magic2", "s_features", "s_ci_offset",
      "s_ci_compressed_size", "s_ci_uncompressed_size">>

HeaderValid(header, bi) ==
    \A k \in 1..Len(HeaderChecks) : header[HeaderChecks[k]] = Expected(bi, HeaderChecks[k])

\* Mutant: the header is written and marked ready before the array is read.
CreateSteps_HeaderFirst ==
    <<"fill", "s_features", "s_ci_offset", "s_ci_compressed_size",
      "s_ci_uncompressed_size", "sync_data", "s_magic", "s_magic2",
      "read_metadata", "sync_data2">>

\* Mutant: the sync_data between the header fields and the magic words is
\* missing.
CreateSteps_OneSync ==
    <<"fill", "read_metadata", "s_features", "s_ci_offset",
      "s_ci_compressed_size", "s_ci_uncompressed_size",
      "s_magic", "s_magic2", "sync_data2">>

\* Mutant: the padding and the header are zeroed after the array is read.
CreateSteps_FillLate ==
    <<"read_metadata", "fill", "s_features", "s_ci_offset",
      "s_ci_compressed_size", "s_ci_uncompressed_size", "sync_data",
      "s_magic", "s_magic2", "sync_data2">>

\* The statements new() runs when the header is not valid and the file is
\* writable, in program order.
CreateSteps ==
    <<"fill", "read_metadata", "s_features", "s_ci_offset",
      "s_ci_compressed_size", "s_ci_uncompressed_size", "sync_data",
      "s_magic", "s_magic2", "sync_data2">>

After(step) ==
    LET k == CHOOSE j \in 1..Len(CreateSteps) : CreateSteps[j] = step
    IN  IF k = Len(CreateSteps) THEN "return" ELSE CreateSteps[k + 1]

WriterReturn(w, result) ==
    /\ wpc' = [wpc EXCEPT ![w] = "done"]
    /\ wres' = [wres EXCEPT ![w] = result]

WriterGoto(w, step) ==
    /\ wpc' = [wpc EXCEPT ![w] = step]
    /\ UNCHANGED wres

\* chunk_count check, then OpenOptions::new().read(true).write(true).create(true).open()
WriterOpen(w) ==
    /\ wpc[w] = "start"
    /\ IF info.chunk_count = 0
       THEN WriterReturn(w, Err("einval")) /\ UNCHANGED file
       ELSE /\ WriterGoto(w, "set_len")
            /\ file' = [file EXCEPT !.exists = TRUE]
    /\ UNCHANGED <<bvars, qvars, cvars, info, disk, widx, rpc, rmapped, rres>>

\* info_size check, then file.metadata()?.len() and file.set_len(expected_size)
WriterSetLen(w) ==
    /\ wpc[w] = "set_len"
    /\ IF BadInfoSize(info)
       THEN WriterReturn(w, Err("einval")) /\ UNCHANGED file
       ELSE /\ WriterGoto(w, "map")
            /\ file' = IF file.len = 0
                       THEN [file EXCEPT !.len = expected_size(info),
                                         !.array = [i \in 1..info.chunk_count |-> 0],
                                         !.header = ZeroHeader]
                       ELSE file
    /\ UNCHANGED <<bvars, qvars, cvars, info, disk, widx, rpc, rmapped, rres>>

\* FileMapState::new, validate_range, and the header condition
WriterMap(w) ==
    /\ wpc[w] = "map"
    /\ IF file.len < expected_size(info)
       THEN WriterReturn(w, Err("einval"))
       ELSE IF HeaderValid(file.header, info)
       THEN WriterReturn(w, Ok("BlobMetaInfo"))
       ELSE WriterGoto(w, CreateSteps[1])
    /\ UNCHANGED <<bvars, qvars, cvars, info, file, disk, widx, rpc, rmapped, rres>>

\* Mutant: the header is reset to BlobMetaHeaderOndisk::default(), which
\* carries both magic words.
FilledHeader_Default ==
    [ZeroHeader EXCEPT !.s_magic = BLOB_METADATA_MAGIC, !.s_magic2 = BLOB_METADATA_MAGIC]

\* buffer[info_size..].fill(0): the padding and the whole header
FilledHeader == ZeroHeader

WriterFill(w) ==
    /\ wpc[w] = "fill"
    /\ file' = [file EXCEPT !.header = FilledHeader]
    /\ WriterGoto(w, After("fill"))
    /\ UNCHANGED <<bvars, qvars, cvars, info, disk, widx, rpc, rmapped, rres>>

\* read_metadata copies the array into buffer[..info_size], record by
\* record as far as a concurrent open can tell.
WriterReadMetadata(w) ==
    /\ wpc[w] = "read_metadata"
    /\ widx[w] < info.chunk_count
    /\ file' = [file EXCEPT !.array[widx[w] + 1] = info.array[widx[w] + 1]]
    /\ widx' = [widx EXCEPT ![w] = widx[w] + 1]
    /\ IF widx[w] + 1 = info.chunk_count
       THEN WriterGoto(w, After("read_metadata"))
       ELSE UNCHANGED <<bvars, wpc, wres>>
    /\ UNCHANGED <<bvars, qvars, cvars, info, disk, rpc, rmapped, rres>>

\* read_metadata fails: the backend read errs or is short (at any point
\* when it reads straight into the mapping), or the read or the
\* decompression into the temporary buffer fails (before the copy).
WriterReadFails(w) ==
    /\ wpc[w] = "read_metadata"
    /\ info.meta_ci_compressor = "None" \/ widx[w] = 0
    /\ WriterReturn(w, Err("eio"))
    /\ UNCHANGED <<bvars, qvars, cvars, info, file, disk, widx, rpc, rmapped, rres>>

\* header.<field> = to_le(blob_info.<field>) and header.s_magic* = MAGIC
WriterStoreField(w, field) ==
    /\ wpc[w] = field
    /\ file' = [file EXCEPT !.header[field] = Expected(info, field)]
    /\ WriterGoto(w, After(field))
    /\ UNCHANGED <<bvars, qvars, cvars, info, disk, widx, rpc, rmapped, rres>>

WriterStoreFeatures(w) == WriterStoreField(w, "s_features")

WriterStoreCiOffset(w) == WriterStoreField(w, "s_ci_offset")

WriterStoreCiCompressedSize(w) == WriterStoreField(w, "s_ci_compressed_size")

WriterStoreCiUncompressedSize(w) == WriterStoreField(w, "s_ci_uncompressed_size")

WriterStoreMagic(w) == WriterStoreField(w, "s_magic")

WriterStoreMagic2(w) == WriterStoreField(w, "s_magic2")

\* filemap.sync_data()
WriterSyncData(w) ==
    /\ wpc[w] \in {"sync_data", "sync_data2"}
    /\ disk' = Contents(file)
    /\ WriterGoto(w, After(wpc[w]))
    /\ UNCHANGED <<bvars, qvars, cvars, info, file, widx, rpc, rmapped, rres>>

\* Ok(BlobMetaInfo { state })
WriterDone(w) ==
    /\ wpc[w] = "return"
    /\ WriterReturn(w, Ok("BlobMetaInfo"))
    /\ UNCHANGED <<bvars, qvars, cvars, info, file, disk, widx, rpc, rmapped, rres>>

ReaderReturn(result) ==
    /\ rpc' = "done"
    /\ rres' = result

\* chunk_count check, then OpenOptions::new().read(true).open(); no create
ReaderOpen ==
    /\ rpc = "start"
    /\ IF info.chunk_count = 0 \/ ~file.exists
       THEN ReaderReturn(Err("einval"))
       ELSE rpc' = "size" /\ UNCHANGED rres
    /\ UNCHANGED <<bvars, qvars, cvars, info, file, disk, wpc, widx, wres, rmapped>>

\* info_size check, then FileMapState::new and validate_range, which need
\* the file to hold expected_size bytes
ReaderMap ==
    /\ rpc = "size"
    /\ IF BadInfoSize(info) \/ file.len < expected_size(info)
       THEN ReaderReturn(Err("einval")) /\ UNCHANGED rmapped
       ELSE rpc' = HeaderChecks[1] /\ rmapped' = TRUE /\ UNCHANGED rres
    /\ UNCHANGED <<bvars, qvars, cvars, info, file, disk, wpc, widx, wres>>

\* One operand of the header condition; on a mismatch
\* Err(enoent!("blob metadata file is not ready")), after the last one Ok.
ReaderCheck ==
    /\ \E k \in 1..Len(HeaderChecks) :
         /\ rpc = HeaderChecks[k]
         /\ IF file.header[HeaderChecks[k]] # Expected(info, HeaderChecks[k])
            THEN ReaderReturn(Err("enoent"))
            ELSE IF k = Len(HeaderChecks)
            THEN ReaderReturn(Ok("BlobMetaInfo"))
            ELSE rpc' = HeaderChecks[k + 1] /\ UNCHANGED rres
    /\ UNCHANGED <<bvars, qvars, cvars, info, file, disk, wpc, widx, wres, rmapped>>

\* The client calls new() again.
ReaderRetry ==
    /\ rpc = "done"
    /\ rpc' = "start"
    /\ rmapped' = FALSE
    /\ UNCHANGED <<bvars, qvars, cvars, info, file, disk, wpc, widx, wres, rres>>

(***************************************************************************)
(* BlobChunkInfoV1Ondisk: the packed 16-byte chunk record, two u64 words   *)
(* comp_info and uncomp_info.  A u64 is held as the set of its one bits    *)
(* (bit 0 is the least significant), so that masks and shifts are exact.   *)
(* The layout is the one the vectors of test_new_chunk_on_disk and         *)
(* test_get_chunks decode under:                                           *)
(*   comp_info    bits 0..39 offset, 40..43 size-1 bits 20..23,            *)
(*                bits 44..63 size-1 bits 0..19;                           *)
(*   uncomp_info  bits 12..43 offset (a 4 KiB aligned byte offset),        *)
(*                bits 8..11 size-1 bits 20..23, 44..63 size-1 bits 0..19. *)
(***************************************************************************)
U64Bits == 0..63

And(x, y) == x \cap y

Or(x, y) == x \cup y

Not(x) == U64Bits \ x

Shl(x, k) == { b + k : b \in x } \cap U64Bits

Shr(x, k) == { b - k : b \in { c \in x : c >= k } }

\* The one bits of a u32 size.
ToBits(n) == { b \in 0..30 : (n \div (2 ^ b)) % 2 = 1 }

RECURSIVE FromBits(_)
FromBits(x) ==
    IF x = {} THEN 0
    ELSE LET b == CHOOSE c \in x : TRUE IN 2 ^ b + FromBits(x \ {b})

BLOB_CC_V1_CHUNK_COMP_OFFSET_MASK == 0..39

BLOB_CC_V1_CHUNK_UNCOMP_OFFSET_MASK == 12..43

BLOB_CC_V1_CHUNK_SIZE_LOW_MASK == 0..19

BLOB_CC_V1_CHUNK_SIZE_HIGH_MASK == 20..23

BLOB_CC_V1_CHUNK_SIZE_LOW_SHIFT == 44

BLOB_CC_V1_CHUNK_SIZE_HIGH_COMP_SHIFT == 20

BLOB_CC_V1_CHUNK_SIZE_HIGH_UNCOMP_SHIFT == 12

\* BlobChunkInfoV1Ondisk::default()
DefaultChunk == [uncomp_info |-> {}, comp_info |-> {}]

\* A setter either stores the value or rejects it (invalid argument, the
\* kind einval! makes) and leaves the record.
Stored(c) == [ok |-> TRUE, chunk |-> c]

Rejected(c) == [ok |-> FALSE, err |-> "einval", chunk |-> c]

chunk_compressed_offset(c) == And(c.comp_info, BLOB_CC_V1_CHUNK_COMP_OFFSET_MASK)

set_compressed_offset(c, offset) ==
    IF And(offset, Not(BLOB_CC_V1_CHUNK_COMP_OFFSET_MASK)) # {}
    THEN Rejected(c)
    ELSE Stored([c EXCEPT !.comp_info =
                    Or(And(c.comp_info, Not(BLOB_CC_V1_CHUNK_COMP_OFFSET_MASK)), offset)])

chunk_compressed_size(c) ==
    LET bit20 == Shr(c.comp_info, BLOB_CC_V1_CHUNK_SIZE_LOW_SHIFT)
        bit4 == Shr(And(c.comp_info, 40..43), BLOB_CC_V1_CHUNK_SIZE_HIGH_COMP_SHIFT)
    IN  FromBits(Or(bit4, bit20)) + 1

set_compressed_size(c, size) ==
    IF ~(size > 0 /\ size <= RAFS_MAX_CHUNK_SIZE)
    THEN Rejected(c)
    ELSE LET size_low == Shl(And(ToBits(size - 1), BLOB_CC_V1_CHUNK_SIZE_LOW_MASK),
                             BLOB_CC_V1_CHUNK_SIZE_LOW_SHIFT)
             size_high == Shl(And(ToBits(size - 1), BLOB_CC_V1_CHUNK_SIZE_HIGH_MASK),
                              BLOB_CC_V1_CHUNK_SIZE_HIGH_COMP_SHIFT)
             offset == And(c.comp_info, BLOB_CC_V1_CHUNK_COMP_OFFSET_MASK)
         IN  Stored([c EXCEPT !.comp_info = Or(Or(size_low, size_high), offset)])

chunk_uncompressed_offset(c) == And(c.uncomp_info, BLOB_CC_V1_CHUNK_UNCOMP_OFFSET_MASK)

set_uncompressed_offset(c, offset) ==
    IF And(offset, Not(BLOB_CC_V1_CHUNK_UNCOMP_OFFSET_MASK)) # {}
    THEN Rejected(c)
    ELSE Stored([c EXCEPT !.uncomp_info =
                    Or(And(c.uncomp_info, Not(BLOB_CC_V1_CHUNK_UNCOMP_OFFSET_MASK)), offset)])

chunk_uncompressed_size(c) ==
    LET size_high == Shl(And(c.uncomp_info, 8..11), BLOB_CC_V1_CHUNK_SIZE_HIGH_UNCOMP_SHIFT)
        size_low == Shr(c.uncomp_info, BLOB_CC_V1_CHUNK_SIZE_LOW_SHIFT)
    IN  FromBits(Or(size_high, size_low)) + 1

set_uncompressed_size(c, size) ==
    IF ~(size > 0 /\ size <= RAFS_MAX_CHUNK_SIZE)
    THEN Rejected(c)
    ELSE LET size_low == Shl(And(ToBits(size - 1), BLOB_CC_V1_CHUNK_SIZE_LOW_MASK),
                             BLOB_CC_V1_CHUNK_SIZE_LOW_SHIFT)
             size_high == Shr(And(ToBits(size - 1), BLOB_CC_V1_CHUNK_SIZE_HIGH_MASK),
                              BLOB_CC_V1_CHUNK_SIZE_HIGH_UNCOMP_SHIFT)
             offset == And(c.uncomp_info, BLOB_CC_V1_CHUNK_UNCOMP_OFFSET_MASK)
         IN  Stored([c EXCEPT !.uncomp_info = Or(Or(size_low, offset), size_high)])

\* BlobMetaChunkArray::new_v1
new_v1 == <<>>

\* Mutant: the two sizes are passed to the wrong setters.
add_v1_SizesSwapped(v, compressed_offset, compressed_size, uncompressed_offset, uncompressed_size) ==
    LET m1 == set_compressed_offset(DefaultChunk, compressed_offset).chunk
        m2 == set_compressed_size(m1, uncompressed_size).chunk
        m3 == set_uncompressed_offset(m2, uncompressed_offset).chunk
        m4 == set_uncompressed_size(m3, compressed_size).chunk
    IN  Append(v, m4)

\* Mutant: the offsets are cut to the width of their fields before they
\* are handed to the setters.
add_v1_MasksOffsets(v, compressed_offset, compressed_size, uncompressed_offset, uncompressed_size) ==
    LET m1 == set_compressed_offset(DefaultChunk,
                  And(compressed_offset, BLOB_CC_V1_CHUNK_COMP_OFFSET_MASK)).chunk
        m2 == set_compressed_size(m1, compressed_size).chunk
        m3 == set_uncompressed_offset(m2,
                  And(uncompressed_offset, BLOB_CC_V1_CHUNK_UNCOMP_OFFSET_MASK)).chunk
        m4 == set_uncompressed_size(m3, uncompressed_size).chunk
    IN  Append(v, m4)

\* BlobMetaChunkArray::add_v1.  The setters return nothing to add_v1, so the
\* record is pushed whatever they did.
add_v1(v, compressed_offset, compressed_size, uncompressed_offset, uncompressed_size) ==
    LET m1 == set_compressed_offset(DefaultChunk, compressed_offset).chunk
        m2 == set_compressed_size(m1, compressed_size).chunk
        m3 == set_uncompressed_offset(m2, uncompressed_offset).chunk
        m4 == set_uncompressed_size(m3, uncompressed_size).chunk
    IN  Append(v, m4)

\* The four values read back from a record.
Quadruple(c) ==
    [compressed_offset   |-> chunk_compressed_offset(c),
     compressed_size     |-> chunk_compressed_size(c),
     uncompressed_offset |-> chunk_uncompressed_offset(c),
     uncompressed_size   |-> chunk_uncompressed_size(c)]

\* Mutant: the flag is read from the top bit of uncomp_info.
is_compressed_TopBit(c) == 63 \in c.uncomp_info

\* BlobMetaChunkInfo::is_compressed: "Assume the image builder guarantee
\* that compress_size < uncompress_size if the chunk is compressed"; the
\* record has no bit of its own for it.
is_compressed(c) == chunk_compressed_size(c) # chunk_uncompressed_size(c)

\* Legal arguments of the setters, up to the boundary values: compressed
\* offsets 0, 1, 2^40 - 4096 and 2^40 - 1; uncompressed offsets 0,
\* 0x1000, 2^40 - 4096 and 0xffffffff000; sizes 1, 0x100, 0x100001 and 2^24.
CompressedOffsets == { {}, {0}, 12..39, 0..39 }

UncompressedOffsets == { {}, {12}, 12..39, 12..43 }

ChunkSizes == { 1, 256, 1048577, 16777216 }

\* Arguments outside the fields: compressed offsets 2^40, 2^41 - 1, 2^63
\* and u64::MAX; uncompressed offsets 1, 0x800, 0x1fff, 2^52, 2^63 + 0x1000
\* and u64::MAX; sizes 0 and 2^24 + 1.
BadCompressedOffsets == { {40}, 0..40, {63}, U64Bits }

BadUncompressedOffsets == { {0}, {11}, 0..12, {52}, {12, 63}, U64Bits }

BadChunkSizes == { 0, 16777217 }

\* The records the setters start from: a default record, the two raw
\* records of the "old format compatibility" test, and an all-ones record.
\* 0xffff_ffff_f100_0000 and 0xffff_f0ff_ffff_ffff:
OldFormatChunk ==
    [uncomp_info |-> {24} \cup (28..63), comp_info |-> (0..39) \cup (44..63)]

\* The assertions of test_new_chunk_on_disk on the raw old-format record
\* and of test_get_chunks on the raw records of its first two chunks
\* (0x0100_0000_0000_0000 / 0x00ff_f000_0000_0000 and
\* 0x01ff_f000_0000_2000 / 0x01ff_f000_0000_1000).
TestVectorsDecode ==
    /\ chunk_uncompressed_size(OldFormatChunk) = 1048576
    /\ chunk_uncompressed_offset(OldFormatChunk) = {24} \cup (28..43)
    /\ chunk_compressed_size(OldFormatChunk) = 1048576
    /\ chunk_compressed_offset(OldFormatChunk) = 0..39
    /\ Quadruple([uncomp_info |-> {56}, comp_info |-> 44..55]) =
         [compressed_offset |-> {}, compressed_size |-> 4096,
          uncompressed_offset |-> {}, uncompressed_size |-> 4097]
    /\ Quadruple([uncomp_info |-> {13} \cup (44..56), comp_info |-> {12} \cup (44..56)]) =
         [compressed_offset |-> {12}, compressed_size |-> 8192,
          uncompressed_offset |-> {13}, uncompressed_size |-> 8192]

InitialChunks ==
    { DefaultChunk, OldFormatChunk, [uncomp_info |-> U64Bits, comp_info |-> U64Bits] }

NoShadow ==
    [compressed_offset |-> None, compressed_size |-> None,
     uncompressed_offset |-> None, uncompressed_size |-> None]

CodecIdle ==
    /\ chunk = DefaultChunk
    /\ shadow = NoShadow
    /\ ci_array = new_v1
    /\ ci_args = <<>>

SetCompressedOffset ==
    /\ \E offset \in CompressedOffsets :
         /\ chunk' = set_compressed_offset(chunk, offset).chunk
         /\ shadow' = [shadow EXCEPT !.compressed_offset = Some(offset)]
    /\ UNCHANGED <<bvars, qvars, mvars, ci_array, ci_args>>

SetCompressedSize ==
    /\ \E size \in ChunkSizes :
         /\ chunk' = set_compressed_size(chunk, size).chunk
         /\ shadow' = [shadow EXCEPT !.compressed_size = Some(size)]
    /\ UNCHANGED <<bvars, qvars, mvars, ci_array, ci_args>>

SetUncompressedOffset ==
    /\ \E offset \in UncompressedOffsets :
         /\ chunk' = set_uncompressed_offset(chunk, offset).chunk
         /\ shadow' = [shadow EXCEPT !.uncompressed_offset = Some(offset)]
    /\ UNCHANGED <<bvars, qvars, mvars, ci_array, ci_args>>

SetUncompressedSize ==
    /\ \E size \in ChunkSizes :
         /\ chunk' = set_uncompressed_size(chunk, size).chunk
         /\ shadow' = [shadow EXCEPT !.uncompressed_size = Some(size)]
    /\ UNCHANGED <<bvars, qvars, mvars, ci_array, ci_args>>

\* new_v1() followed by add_v1(...)
AddV1 ==
    /\ \E co \in {{12}, 0..39}, cs \in {256, 16777216},
          uo \in {{}, 12..43}, us \in {1, 1048577} :
         /\ ci_array' = add_v1(new_v1, co, cs, uo, us)
         /\ ci_args' = <<[compressed_offset |-> co, compressed_size |-> cs,
                          uncompressed_offset |-> uo, uncompressed_size |-> us]>>
    /\ UNCHANGED <<bvars, qvars, mvars, chunk, shadow>>

NextCodec ==
    \/ SetCompressedOffset
    \/ SetCompressedSize
    \/ SetUncompressedOffset
    \/ SetUncompressedSize
    \/ AddV1

(***************************************************************************)
(* BlobBufferWriter (nydus-image/core/context.rs): the sink of one blob.   *)
(* The blob storage is a map from paths to the bytes of the file there.    *)
(* A writer holds the bytes its BufWriter has not handed to the file yet   *)
(* and, in BlobsDir mode, the TempFile it writes to.  An operation that    *)
(* touches the file system can fail; `fault` names the call that does.     *)
(***************************************************************************)
\* The user's --blob path, the names TempFile::new_in picks, and blob ids.
SingleFilePath == "blob"

TempNames == {"tmp_a", "tmp_b"}

BlobIds == {"x", "y"}

SingleFile == [mode |-> "SingleFile", path |-> SingleFilePath]

BlobsDir == [mode |-> "BlobsDir"]

NoFiles == [p \in {} |-> <<>>]

remove_file(files, p) == [q \in DOMAIN files \ {p} |-> files[q]]

write_file(files, p, bytes) ==
    [q \in DOMAIN files \cup {p} |-> IF q = p THEN bytes ELSE files[q]]

rename(files, from, to) ==
    [q \in (DOMAIN files \ {from}) \cup {to} |-> IF q = to THEN files[from] ELSE files[q]]

\* Mutant: a dropped TempFile stays on disk.
DropTempFile_Keeps(files, tmp_file) == files

\* TempFile's drop: "tmp file will be removed automatically when it is
\* dropped"; a path that is gone (renamed) is not an error.
DropTempFile(files, tmp_file) ==
    IF tmp_file.some THEN remove_file(files, tmp_file.val) ELSE files

\* The file the writer's descriptor is open on.
WriterPath(w) == IF w.blob_stor.mode = "SingleFile" THEN w.blob_stor.path ELSE w.tmp_file.val

\* Mutant: the buffered bytes never reach the file.
BufWriterFlush_Nothing(files, w) == files

\* BufWriter hands its buffer to the file.
BufWriterFlush(files, w) ==
    IF WriterPath(w) \in DOMAIN files
    THEN write_file(files, WriterPath(w), files[WriterPath(w)] \o w.buffer)
    ELSE files

\* Drop of a BlobBufferWriter, fields in declaration order: file (the
\* BufWriter flushes), blob_stor, tmp_file.
DropWriter(files, w) == DropTempFile(BufWriterFlush(files, w), w.tmp_file)

\* BlobBufferWriter::new
BlobBufferWriter_new(files, blob_stor, tmp, fault) ==
    IF blob_stor.mode = "SingleFile"
    THEN IF fault = "open"
         THEN [ret |-> Err("io"), files |-> files, writer |-> None]
         ELSE [ret |-> Ok("unit"),
               files |-> write_file(files, blob_stor.path, <<>>),
               writer |-> Some([blob_stor |-> blob_stor, tmp_file |-> None,
                                buffer |-> <<>>])]
    ELSE IF fault = "open"
         THEN [ret |-> Err("io"), files |-> files, writer |-> None]
         ELSE IF fault = "try_clone"
         THEN [ret |-> Err("io"),
               files |-> DropTempFile(write_file(files, tmp, <<>>), Some(tmp)),
               writer |-> None]
         ELSE [ret |-> Ok("unit"),
               files |-> write_file(files, tmp, <<>>),
               writer |-> Some([blob_stor |-> blob_stor, tmp_file |-> Some(tmp),
                                buffer |-> <<>>])]

\* BlobBufferWriter::write_all
write_all(w, buf) == [w EXCEPT !.buffer = @ \o buf]

\* Mutant: an artifact of an earlier build under the same name is an error.
release_RejectsExisting(files, w, name, fault) ==
    LET flushed == BufWriterFlush(files, w)
    IN  IF name.some /\ w.blob_stor.mode = "BlobsDir"
        THEN IF name.val \in DOMAIN flushed
             THEN [ret |-> Err("io"), files |-> DropTempFile(flushed, w.tmp_file)]
             ELSE [ret |-> Ok("unit"),
                   files |-> DropTempFile(rename(flushed, w.tmp_file.val, name.val),
                                          w.tmp_file)]
        ELSE IF ~name.some /\ w.blob_stor.mode = "SingleFile"
        THEN [ret |-> Ok("unit"), files |-> remove_file(flushed, w.blob_stor.path)]
        ELSE [ret |-> Ok("unit"), files |-> DropTempFile(flushed, w.tmp_file)]

\* BlobBufferWriter::release.  It consumes the writer: whatever it has not
\* moved out is dropped when it returns, on success and on error alike.
release(files, w, name, fault) ==
    IF fault = "flush"
    THEN [ret |-> Err("io"), files |-> DropTempFile(files, w.tmp_file)]
    ELSE LET flushed == BufWriterFlush(files, w)
         IN  IF name.some
             THEN IF w.blob_stor.mode = "BlobsDir"
                  THEN LET might_exist_path == name.val
                           removed == IF might_exist_path \in DOMAIN flushed
                                      THEN remove_file(flushed, might_exist_path)
                                      ELSE flushed
                       IN  IF might_exist_path \in DOMAIN flushed /\ fault = "remove_file"
                           THEN [ret |-> Err("io"),
                                 files |-> DropTempFile(flushed, w.tmp_file)]
                           ELSE IF fault = "rename"
                           THEN [ret |-> Err("io"),
                                 files |-> DropTempFile(removed, w.tmp_file)]
                           ELSE [ret |-> Ok("unit"),
                                 files |-> DropTempFile(
                                     rename(removed, w.tmp_file.val, might_exist_path),
                                     w.tmp_file)]
                  ELSE [ret |-> Ok("unit"), files |-> flushed]
             ELSE IF w.blob_stor.mode = "SingleFile"
                  THEN IF fault = "remove_file"
                       THEN [ret |-> Err("io"), files |-> flushed]
                       ELSE [ret |-> Ok("unit"),
                             files |-> remove_file(flushed, w.blob_stor.path)]
                  ELSE [ret |-> Ok("unit"), files |-> DropTempFile(flushed, w.tmp_file)]

\* The storage as release(Some(name)) of a BlobsDir writer leaves it after
\* each of its file system calls, from the state it is called in to the
\* state it returns in: the flush, the removal of dir/name if it exists,
\* the rename of the temp file, and the drop of what is left of the writer.
release_steps(files, w, name, fault) ==
    LET flushed == BufWriterFlush(files, w)
        exists == name.val \in DOMAIN flushed
        removed == IF exists THEN remove_file(flushed, name.val) ELSE flushed
        renamed == rename(removed, w.tmp_file.val, name.val)
    IN  IF fault = "flush" THEN <<files, DropTempFile(files, w.tmp_file)>>
        ELSE IF exists /\ fault = "remove_file"
        THEN <<files, flushed, DropTempFile(flushed, w.tmp_file)>>
        ELSE IF fault = "rename"
        THEN <<files, flushed, removed, DropTempFile(removed, w.tmp_file)>>
        ELSE <<files, flushed, removed, renamed, DropTempFile(renamed, w.tmp_file)>>

(***************************************************************************)
(* The image build (nydus-image): the per-file chunker Node::dump_blob,    *)
(* the blob contexts and the BlobManager, and the chunk dictionary.        *)
(* The data of a chunk is named by its digest: equal data has equal        *)
(* digest and equal length, different data has different digests.          *)
(***************************************************************************)
RAFS_DEFAULT_BLOCK_SIZE == 1048576

\* The chunk data that files are made of: C1 fills a block, C2 and C3 are
\* the short tail of a file, C3 a multiple of 4096 long and C2 not.
ChunkData == {"C1", "C2", "C3"}

DataLen(d) == CASE d = "C1" -> RAFS_DEFAULT_BLOCK_SIZE [] d = "C2" -> 5 [] OTHER -> 4096

\* compress::compress: the length of the result and whether it is smaller
\* than the data; when it is not, the data is stored as it is.
compress(d) ==
    IF d = "C1" THEN [len |-> 1000, is_compressed |-> TRUE]
    ELSE [len |-> DataLen(d), is_compressed |-> FALSE]

\* The regular files a layer can hold, as the data of their blocks: every
\* block but the last is full.  The first file is empty.
Files == { <<>>, <<"C2">>, <<"C3">>, <<"C1", "C2">>, <<"C1", "C1">> }

RECURSIVE FileSize(_)
FileSize(data) == IF data = <<>> THEN 0 ELSE DataLen(Head(data)) + FileSize(Tail(data))

div_round_up(n, d) == (n + d - 1) \div d

\* Node::chunk_count of a regular file
chunk_count(i_size) == div_round_up(i_size, RAFS_DEFAULT_BLOCK_SIZE)

\* RafsDigest::default(), the digest of an inode that was not dumped.
RafsDigest_default == [hashed |-> <<>>, final |-> FALSE]

\* RafsDigest::hasher: the running hash, held as what went into it.
RafsDigest_hasher == <<>>

\* Mutant: the running hash only keeps the digest it was given last.
digest_update_Last(hasher, block_id) == <<block_id>>

\* DigestHasher::digest_update with the digest of a chunk
digest_update(hasher, block_id) == Append(hasher, block_id)

\* DigestHasher::digest_finalize
digest_finalize(hasher) == [hashed |-> hasher, final |-> TRUE]

\* A regular file of layer `layer` before it is dumped.
NewNode(layer, data) ==
    [layer |-> layer, data |-> data, i_size |-> FileSize(data),
     i_child_count |-> chunk_count(FileSize(data)), chunks |-> <<>>,
     i_digest |-> RafsDigest_default]

\* OndiskChunkInfo::new(), with the index of the chunk in its blob
OndiskChunkInfo_new ==
    [block_id |-> "", blob_index |-> 0, index |-> 0, compressed |-> FALSE,
     compress_size |-> 0, decompress_size |-> 0,
     compress_offset |-> 0, decompress_offset |-> 0, file_offset |-> 0]

\* BlobContext::new_with_writer: the fields the build reads back.
BlobContext_new(blob_id) ==
    [blob_id |-> blob_id, blob_hash |-> "",
     blob_meta_info |-> <<>>, blob_meta_info_enabled |-> FALSE,
     compressed_blob_size |-> 0, decompressed_blob_size |-> 0,
     compress_offset |-> 0, decompress_offset |-> 0, chunk_count |-> 0]

\* BlobContext::from
BlobContext_from(blob_id, chunk_count_, blob_cache_size, compressed_blob_size) ==
    [BlobContext_new(blob_id) EXCEPT !.chunk_count = chunk_count_,
                                     !.decompressed_blob_size = blob_cache_size,
                                     !.compressed_blob_size = compressed_blob_size]

\* BlobContext::set_meta_info_enabled
set_meta_info_enabled(ctx, enable) == [ctx EXCEPT !.blob_meta_info_enabled = enable]

\* Mutant: the record of a chunk is put in front of the meta array.
add_chunk_meta_info_InFront(ctx, c) ==
    IF ctx.blob_meta_info_enabled
    THEN [ctx EXCEPT !.blob_meta_info =
             << [compressed_offset |-> c.compress_offset,
                 compressed_size |-> c.compress_size,
                 uncompressed_offset |-> c.decompress_offset,
                 uncompressed_size |-> c.decompress_size] >> \o @]
    ELSE ctx

\* BlobContext::add_chunk_meta_info
add_chunk_meta_info(ctx, c) ==
    IF ctx.blob_meta_info_enabled
    THEN [ctx EXCEPT !.blob_meta_info =
             Append(@, [compressed_offset |-> c.compress_offset,
                        compressed_size |-> c.compress_size,
                        uncompressed_offset |-> c.decompress_offset,
                        uncompressed_size |-> c.decompress_size])]
    ELSE ctx

\* Mutant: the chunk count wraps around to 0 behind U32_MAX.
BlobContext_alloc_index_Wrapping(ctx) ==
    [ret |-> Ok(ctx.chunk_count),
     ctx |-> [ctx EXCEPT !.chunk_count = (@ + 1) % (U32_MAX + 1)]]

\* BlobContext::alloc_index: what the call returns, the index handed out
\* or the error of checked_add, and the context after.
BlobContext_alloc_index(ctx) ==
    IF ctx.chunk_count >= U32_MAX
    THEN [ret |-> Err("the number of chunks in blob exceeds the u32 limit"),
          ctx |-> ctx]
    ELSE [ret |-> Ok(ctx.chunk_count), ctx |-> [ctx EXCEPT !.chunk_count = @ + 1]]

\* BlobManager::new
BlobManager_new == [blobs |-> <<>>]

\* BlobManager::from_blob_table
from_blob_table(mgr, blob_table) ==
    [mgr EXCEPT !.blobs =
        [i \in 1..Len(blob_table) |->
            BlobContext_from(blob_table[i].blob_id, blob_table[i].chunk_count,
                             blob_table[i].blob_cache_size,
                             blob_table[i].compressed_blob_size)]]

\* u32::try_from(usize)
u32_try_from(n) == IF n <= U32_MAX THEN Ok(n) ELSE Err("too many blobs")

\* BlobManager::alloc_index (blob indexes count from 0).  The callers
\* unwrap the result; no build of the sizes modelled has U32_MAX blobs.
BlobManager_alloc_index(mgr) == u32_try_from(Len(mgr.blobs)).val

\* Mutant: a context is added in front of the others.
BlobManager_add_InFront(mgr, blob_ctx) == [mgr EXCEPT !.blobs = <<blob_ctx>> \o @]

\* BlobManager::add
BlobManager_add(mgr, blob_ctx) == [mgr EXCEPT !.blobs = Append(@, blob_ctx)]

\* BlobManager::current: the last context, if any.
current(mgr) == IF mgr.blobs = <<>> THEN None ELSE Some(mgr.blobs[Len(mgr.blobs)])

\* The context in slot idx.
BlobAt(mgr, idx) == mgr.blobs[idx + 1]

\* BlobManager::to_blob_table
to_blob_table(mgr) ==
    [i \in 1..Len(mgr.blobs) |->
        [blob_id |-> mgr.blobs[i].blob_id,
         chunk_count |-> mgr.blobs[i].chunk_count,
         blob_cache_size |-> mgr.blobs[i].decompressed_blob_size,
         compressed_blob_size |-> mgr.blobs[i].compressed_blob_size]]

\* BlobManager::get_blob_idx_by_id
get_blob_idx_by_id(mgr, id) ==
    LET found == { i \in 1..Len(mgr.blobs) : mgr.blobs[i].blob_id = id }
    IN  IF found = {} THEN None
        ELSE Some((CHOOSE i \in found : \A j \in found : i <= j) - 1)

\* The blob table of the parent bootstrap, when the build has one.
ParentBlobTable ==
    << [blob_id |-> "p0", chunk_count |-> 1, blob_cache_size |-> 4096,
        compressed_blob_size |-> 4096],
       [blob_id |-> "p1", chunk_count |-> 1, blob_cache_size |-> 4096,
        compressed_blob_size |-> 4096] >>

\* The chunk dictionary, loaded from the bootstrap of an earlier image:
\* its blob table (the first blob is also the parent's) and its chunks,
\* each citing a blob by its index in that table.
DictBlobs ==
    << [blob_id |-> "p0", blob_index |-> 0, chunk_count |-> 1,
        blob_cache_size |-> 4096, compressed_blob_size |-> 4096],
       [blob_id |-> "a1", blob_index |-> 1, chunk_count |-> 1,
        blob_cache_size |-> RAFS_DEFAULT_BLOCK_SIZE, compressed_blob_size |-> 1000] >>

DictChunks ==
    [d \in {"C3", "C1"} |->
        IF d = "C3"
        THEN [OndiskChunkInfo_new EXCEPT !.block_id = "C3", !.blob_index = 0,
                                         !.compress_size = 4096,
                                         !.decompress_size = 4096]
        ELSE [OndiskChunkInfo_new EXCEPT !.block_id = "C1", !.blob_index = 1,
                                         !.compressed = TRUE,
                                         !.compress_size = 1000,
                                         !.decompress_size = RAFS_DEFAULT_BLOCK_SIZE]]

\* No dictionary was given (Arc::new(())), and a dictionary just loaded.
NoChunkDict == [present |-> FALSE, real_blob_idx |-> [k \in {} |-> 0]]

LoadedChunkDict == [present |-> TRUE, real_blob_idx |-> [k \in {} |-> 0]]

\* ChunkDict::get_chunk
get_chunk(dict, block_id) ==
    IF dict.present /\ block_id \in DOMAIN DictChunks
    THEN Some(DictChunks[block_id]) ELSE None

\* ChunkDict::set_real_blob_idx
set_real_blob_idx(dict, inner_idx, out_idx) ==
    [dict EXCEPT !.real_blob_idx =
        [k \in DOMAIN @ \cup {inner_idx} |-> IF k = inner_idx THEN out_idx ELSE @[k]]]

\* ChunkDict::get_real_blob_idx
get_real_blob_idx(dict, inner_idx) ==
    IF inner_idx \in DOMAIN dict.real_blob_idx
    THEN Some(dict.real_blob_idx[inner_idx]) ELSE None

\* Mutant: a dictionary blob takes a fresh slot even when the manager
\* already owns a blob with its id.
MapDictBlob_AlwaysAdds(md, blob) ==
    [mgr |-> BlobManager_add(md.mgr,
                 BlobContext_from(blob.blob_id, blob.chunk_count,
                                  blob.blob_cache_size, blob.compressed_blob_size)),
     dict |-> set_real_blob_idx(md.dict, blob.blob_index,
                                BlobManager_alloc_index(md.mgr))]

\* The body of the loop of extend_blob_table_from_chunk_dict: one blob of
\* the dictionary gets its real index.
MapDictBlob(md, blob) ==
    LET real_idx == get_blob_idx_by_id(md.mgr, blob.blob_id)
    IN  IF real_idx.some
        THEN [mgr |-> md.mgr,
              dict |-> set_real_blob_idx(md.dict, blob.blob_index, real_idx.val)]
        ELSE LET idx == BlobManager_alloc_index(md.mgr)
             IN  [mgr |-> BlobManager_add(md.mgr,
                              BlobContext_from(blob.blob_id, blob.chunk_count,
                                               blob.blob_cache_size,
                                               blob.compressed_blob_size)),
                  dict |-> set_real_blob_idx(md.dict, blob.blob_index, idx)]

RECURSIVE ExtendLoop(_, _)
ExtendLoop(md, i) ==
    IF i > Len(DictBlobs) THEN md ELSE ExtendLoop(MapDictBlob(md, DictBlobs[i]), i + 1)

\* Mutant: only the first blob of the dictionary gets its real index.
extend_blob_table_from_chunk_dict_FirstOnly(mgr, dict) ==
    IF dict.present THEN MapDictBlob([mgr |-> mgr, dict |-> dict], DictBlobs[1])
    ELSE [mgr |-> mgr, dict |-> dict]

\* BlobManager::extend_blob_table_from_chunk_dict
extend_blob_table_from_chunk_dict(mgr, dict) ==
    IF dict.present THEN ExtendLoop([mgr |-> mgr, dict |-> dict], 1)
    ELSE [mgr |-> mgr, dict |-> dict]

\* Mutant: a chunk taken from the dictionary keeps the dictionary's own
\* blob index.
DictBlobIndex_Inner(md, inner_idx) ==
    [mgr |-> md.mgr, dict |-> md.dict, blob_index |-> inner_idx]

\* The real index of the dictionary blob a reused chunk is in: the one
\* recorded, or the next free slot when the blob is referenced for the
\* first time.
DictBlobIndex(md, inner_idx) ==
    LET known == get_real_blob_idx(md.dict, inner_idx)
    IN  IF known.some
        THEN [mgr |-> md.mgr, dict |-> md.dict, blob_index |-> known.val]
        ELSE LET r == MapDictBlob(md, DictBlobs[inner_idx + 1])
             IN  [mgr |-> r.mgr, dict |-> r.dict,
                  blob_index |-> r.dict.real_blob_idx[inner_idx]]

\* Mutant: a cached chunk is never reused.
SizeMatches_Never(cached_chunk, chunk_size) == FALSE

\* Mutant: a cached chunk of zero decompress size is not reused.
SizeMatches_SameSize(cached_chunk, chunk_size) ==
    cached_chunk.decompress_size = chunk_size

\* dump_blob: "hole cached_chunk can have zero decompress size"
SizeMatches(cached_chunk, chunk_size) ==
    cached_chunk.decompress_size = 0 \/ cached_chunk.decompress_size = chunk_size

\* The chunk cache handed to dump_blob: digest -> chunk, when there is one.
EmptyChunkCache == [d \in {} |-> OndiskChunkInfo_new]

chunk_cache_get(cache, block_id) ==
    IF block_id \in DOMAIN cache THEN Some(cache[block_id]) ELSE None

chunk_cache_insert(cache, block_id, c) ==
    [d \in DOMAIN cache \cup {block_id} |-> IF d = block_id THEN c ELSE cache[d]]

\* Mutant: the reused record keeps the file offset it was cached with.
ReusedChunk_SameOffset(cached_chunk, file_offset) == cached_chunk

\* "chunk.clone_from(&cached_chunk); chunk.file_offset = file_offset;"
ReusedChunk(cached_chunk, file_offset) ==
    [cached_chunk EXCEPT !.file_offset = file_offset]

\* The size of chunk i of the file.
SliceSize(node, i) ==
    IF i = node.i_child_count - 1
    THEN node.i_size - RAFS_DEFAULT_BLOCK_SIZE * i
    ELSE RAFS_DEFAULT_BLOCK_SIZE

\* Mutant: the chunk cache is looked up before the dictionary.
lookup_chunk_CacheFirst(dict, cache, block_id, chunk_size) ==
    LET dict_chunk == get_chunk(dict, block_id)
        cached_chunk == chunk_cache_get(cache, block_id)
    IN  IF cached_chunk.some /\ SizeMatches(cached_chunk.val, chunk_size)
        THEN [from |-> "cache", chunk |-> cached_chunk.val]
        ELSE IF dict_chunk.some /\ SizeMatches(dict_chunk.val, chunk_size)
        THEN [from |-> "dict", chunk |-> dict_chunk.val]
        ELSE [from |-> "none", chunk |-> OndiskChunkInfo_new]

\* The lookup of a slice's digest: the chunk dictionary first, the chunk
\* cache when the dictionary has no record to reuse.
lookup_chunk(dict, cache, block_id, chunk_size) ==
    LET dict_chunk == get_chunk(dict, block_id)
        cached_chunk == chunk_cache_get(cache, block_id)
    IN  IF dict_chunk.some /\ SizeMatches(dict_chunk.val, chunk_size)
        THEN [from |-> "dict", chunk |-> dict_chunk.val]
        ELSE IF cached_chunk.some /\ SizeMatches(cached_chunk.val, chunk_size)
        THEN [from |-> "cache", chunk |-> cached_chunk.val]
        ELSE [from |-> "none", chunk |-> OndiskChunkInfo_new]

\* One turn of the loop of dump_blob: chunk i of the file.
dump_chunk(node, i, st, blob_index) ==
    LET file_offset == i * RAFS_DEFAULT_BLOCK_SIZE
        chunk_size == SliceSize(node, i)
        block_id == node.data[i + 1]
        found == lookup_chunk(st.dict, st.chunk_cache, block_id, chunk_size)
        hashed == [st EXCEPT !.inode_hasher = digest_update(@, block_id)]
    IN  IF found.from = "dict"
        THEN LET r == DictBlobIndex([mgr |-> st.mgr, dict |-> st.dict],
                                    found.chunk.blob_index)
                 c == [ReusedChunk(found.chunk, file_offset) EXCEPT
                          !.blob_index = r.blob_index]
             IN  [hashed EXCEPT !.chunks = Append(@, c),
                            !.mgr = r.mgr, !.dict = r.dict]
        ELSE IF found.from = "cache"
        THEN [hashed EXCEPT !.chunks = Append(@, ReusedChunk(found.chunk, file_offset))]
        ELSE LET compressed == compress(block_id)
                 alloc == BlobContext_alloc_index([chunk_count |-> st.chunk_count])
                 c == [block_id |-> block_id,
                       blob_index |-> blob_index,
                       index |-> alloc.ret.val,
                       compressed |-> compressed.is_compressed,
                       compress_size |-> compressed.len,
                       decompress_size |-> chunk_size,
                       compress_offset |-> st.compress_offset,
                       decompress_offset |-> st.decompress_offset,
                       file_offset |-> file_offset]
                 meta == add_chunk_meta_info(
                             [blob_meta_info |-> st.blob_meta_info,
                              blob_meta_info_enabled |-> st.blob_meta_info_enabled], c)
             IN  [hashed EXCEPT !.blob_size = @ + compressed.len,
                            !.blob_meta_info = meta.blob_meta_info,
                            !.compress_offset = @ + compressed.len,
                            !.decompress_offset = @ + chunk_size,
                            !.chunk_count = alloc.ctx.chunk_count,
                            !.blob_hash = @ \o block_id,
                            !.f_blob = write_all(@, <<block_id>>),
                            !.chunk_cache = chunk_cache_insert(@, block_id, c),
                            !.chunks = Append(@, c)]

\* Node::dump_blob, the loop over the chunks of a regular file.  `st` holds
\* what the call changes: the node's chunk list, the blob writer, the blob
\* hash, the two cursors, the chunk cache and the returned blob_size, and
\* with a chunk dictionary the blob manager and the dictionary's index map.
RECURSIVE dump_blob_loop(_, _, _, _)
dump_blob_loop(node, i, st, blob_index) ==
    IF i >= node.i_child_count THEN st
    ELSE dump_blob_loop(node, i + 1, dump_chunk(node, i, st, blob_index), blob_index)

\* Node::dump_blob of a regular file
dump_blob(node, st, blob_index) ==
    dump_blob_loop(node, 0, [st EXCEPT !.chunks = node.chunks, !.blob_size = 0,
                                       !.inode_hasher = RafsDigest_hasher],
                   blob_index)

\* Mutant: the chunk records are written whatever their number.
dump_bootstrap_Unchecked(node, f_bootstrap) ==
    [ret |-> Ok("node_size"),
     f_bootstrap |->
        Append(f_bootstrap, [kind |-> "inode", i_size |-> node.i_size,
                             i_child_count |-> node.i_child_count])
        \o [k \in 1..Len(node.chunks) |-> [kind |-> "chunk", chunk |-> node.chunks[k]]]]

\* Node::dump_bootstrap of a regular file without xattrs: the inode is
\* stored, then the chunk records, unless their number is not
\* i_child_count.
dump_bootstrap(node, f_bootstrap) ==
    LET stored == Append(f_bootstrap, [kind |-> "inode", i_size |-> node.i_size,
                                       i_child_count |-> node.i_child_count])
    IN  IF node.i_child_count # Len(node.chunks)
        THEN [ret |-> Err("einval"), f_bootstrap |-> stored]
        ELSE [ret |-> Ok("node_size"),
              f_bootstrap |->
                 stored \o [k \in 1..Len(node.chunks) |->
                               [kind |-> "chunk", chunk |-> node.chunks[k]]]]

\* Neither dump_bootstrap nor the create command has been called.
NoCalls ==
    /\ bootstrap = [op |-> "idle"]
    /\ cmd = [op |-> "idle"]

\* The image nothing has been done for yet.
NoImage ==
    /\ bld = [phase |-> "none"]
    /\ blob_mgr = BlobManager_new
    /\ chunk_dict = NoChunkDict
    /\ chunk_cache = EmptyChunkCache
    /\ nodes = <<>>

WriterIdle == [op |-> "idle"]

\* No image is being built.
BuildIdle ==
    /\ fs = NoFiles
    /\ writer = None
    /\ appended = <<>>
    /\ wcall = WriterIdle
    /\ wret = None
    /\ builds = 0
    /\ NoImage
    /\ NoCalls

(***************************************************************************)
(* The blobs the queries run on.  A chunk array is laid out the way the    *)
(* image builder lays it out: chunks in ascending order, each one placed   *)
(* at or after the end of its predecessor.  The uncompressed offset is     *)
(* always 4 KiB aligned (the record cannot store anything else); holes     *)
(* between chunks occur in both coordinate spaces, as in the fixture of    *)
(* test_get_chunks (0x6000 -> 0x100000).                                   *)
(***************************************************************************)
ChunkKinds ==
    { [ugap |-> 0,    us |-> 4097, cgap |-> 0,    cs |-> 4096],
      [ugap |-> 0,    us |-> 8192, cgap |-> 0,    cs |-> 8192],
      [ugap |-> 4096, us |-> 4096, cgap |-> 0,    cs |-> 2048],
      [ugap |-> 0,    us |-> 4096, cgap |-> 4096, cs |-> 4096] }

RECURSIVE BuildChunks(_, _, _, _)
BuildChunks(kinds, i, co, uo) ==
    IF i > Len(kinds)
    THEN <<>>
    ELSE LET k == kinds[i]
             c == [compressed_offset   |-> co + k.cgap,
                   compressed_size     |-> k.cs,
                   uncompressed_offset |-> uo + k.ugap,
                   uncompressed_size   |-> k.us]
         IN  <<c>> \o BuildChunks(kinds, i + 1,
                                  c.compressed_offset + c.compressed_size,
                                  round_up_4k(c.uncompressed_offset + c.uncompressed_size))

ChunkArrays ==
    { BuildChunks(kinds, 1, 0, 0) :
        kinds \in UNION { [1..n -> ChunkKinds] : n \in 0..MaxChunks } }

\* The declared totals of a blob: exact, with trailing bytes after the last
\* chunk (the metadata section), or short of the last chunk (BlobInfo and
\* the chunk array come from different files and may disagree).  A stargz
\* blob declares a compressed size of 0 (validate_chunk's comment).
Totals(chunks) ==
    IF chunks = <<>> THEN { [cs |-> 0, us |-> 0, stargz |-> FALSE] } ELSE
    LET last == chunks[Len(chunks)]
        cend == last.compressed_offset + last.compressed_size
        uend == round_up_4k(last.uncompressed_offset + last.uncompressed_size)
    IN  { [cs |-> c, us |-> u, stargz |-> FALSE] :
            c \in {cend, cend + 4096, cend - 1}, u \in {uend, uend + 4096, uend - 4096} }
        \cup { [cs |-> c, us |-> uend, stargz |-> TRUE] : c \in {0, cend} }

BlobMetaStates ==
    UNION { { [blob_index        |-> 1,
               compressed_size   |-> t.cs,
               uncompressed_size |-> t.us,
               chunk_count       |-> Len(chunks),
               chunks            |-> chunks,
               is_stargz         |-> t.stargz] : t \in Totals(chunks) } :
            chunks \in ChunkArrays }

\* The span of a chunk in the selected coordinate space, written out from
\* the record fields.
Lo(c, compressed) ==
    IF compressed THEN c.compressed_offset ELSE c.uncompressed_offset

Hi(c, compressed) ==
    IF compressed THEN c.compressed_offset + c.compressed_size
                  ELSE c.uncompressed_offset + c.uncompressed_size

(***************************************************************************)
(* The arguments the queries are called with: the boundary addresses of    *)
(* the blob's chunks, and sizes that cover one chunk, several chunks, a    *)
(* hole, and that overflow the address word.                               *)
(***************************************************************************)
Points(st, compressed) ==
    {0} \cup UNION { { Lo(st.chunks[i], compressed),
                       Hi(st.chunks[i], compressed) - 1,
                       Hi(st.chunks[i], compressed) } : i \in 1..Len(st.chunks) }

Starts(st, compressed) ==
    { Lo(st.chunks[i], compressed) : i \in 1..Len(st.chunks) }
    \cup { IF compressed THEN st.compressed_size ELSE st.uncompressed_size }

Sizes == {0, 1, 4096, 4097, 8192, 12289, U64_MAX}

BatchSizes == {0, 8192, U64_MAX}

MaxSizes == {0, 2048, 4096, 8192, U64_MAX}

\* The lists add_more_chunks is called with: results of earlier queries,
\* that is runs of one or two chunks with consecutive indices.
Tails(st) ==
    { <<BlobMetaChunk(k, st)>> : k \in 0..(Len(st.chunks) - 1) }
    \cup { <<BlobMetaChunk(k - 1, st), BlobMetaChunk(k, st)>> : k \in 1..(Len(st.chunks) - 1) }

QueryIdle == [op |-> "idle"]

NoState ==
    [blob_index |-> 0, compressed_size |-> 0, uncompressed_size |-> 0,
     chunk_count |-> 0, chunks |-> <<>>, is_stargz |-> FALSE]

\* No meta file is being created.
MetaIdle ==
    /\ info = None
    /\ file = NoFile
    /\ disk = Contents(NoFile)
    /\ wpc = <<>>
    /\ widx = <<>>
    /\ wres = <<>>
    /\ rpc = "done"
    /\ rmapped = FALSE
    /\ rres = None

InitQuery ==
    /\ state \in BlobMetaStates
    /\ call = QueryIdle
    /\ ret = None
    /\ MetaIdle
    /\ CodecIdle
    /\ BuildIdle


(***************************************************************************)
(* One query on the blob: the operation, its arguments and its result.     *)
(***************************************************************************)
CallGetChunkIndex ==
    /\ call = QueryIdle
    /\ \E compressed \in BOOLEAN :
         \E addr \in Points(state, compressed) :
            /\ call' = [op |-> "get_chunk_index_nocheck", addr |-> addr,
                        compressed |-> compressed]
            /\ ret' = get_chunk_index_nocheck(state, addr, compressed)
    /\ UNCHANGED <<bvars, state, mvars, cvars>>

CallGetChunksUncompressed ==
    /\ call = QueryIdle
    /\ \E start \in Starts(state, FALSE), size \in Sizes, batch_size \in BatchSizes :
            /\ call' = [op |-> "get_chunks_uncompressed", start |-> start,
                        size |-> size, batch_size |-> batch_size]
            /\ ret' = get_chunks_uncompressed(state, start, size, batch_size)
    /\ UNCHANGED <<bvars, state, mvars, cvars>>

CallGetChunksCompressed ==
    /\ call = QueryIdle
    /\ \E start \in Starts(state, TRUE), size \in Sizes, batch_size \in BatchSizes :
            /\ call' = [op |-> "get_chunks_compressed", start |-> start,
                        size |-> size, batch_size |-> batch_size]
            /\ ret' = get_chunks_compressed(state, start, size, batch_size)
    /\ UNCHANGED <<bvars, state, mvars, cvars>>

CallAddMoreChunks ==
    /\ call = QueryIdle
    /\ \E chunks \in Tails(state), max_size \in MaxSizes :
            /\ call' = [op |-> "add_more_chunks", chunks |-> chunks,
                        max_size |-> max_size]
            /\ ret' = add_more_chunks(state, chunks, max_size)
    /\ UNCHANGED <<bvars, state, mvars, cvars>>

NextQuery ==
    \/ CallGetChunkIndex
    \/ CallGetChunksUncompressed
    \/ CallGetChunksCompressed
    \/ CallAddMoreChunks

SpecQuery == InitQuery /\ [][NextQuery]_vars

(***************************************************************************)
(* One writer creates the meta file of a blob while a client opens it      *)
(* read-only, again and again.                                             *)
(***************************************************************************)
InitMeta ==
    /\ info \in BlobInfos
    /\ file = NoFile
    /\ disk = Contents(NoFile)
    /\ wpc = [w \in {1} |-> "start"]
    /\ widx = [w \in {1} |-> 0]
    /\ wres = [w \in {1} |-> None]
    /\ rpc = "start"
    /\ rmapped = FALSE
    /\ rres = None
    /\ state = NoState
    /\ call = QueryIdle
    /\ ret = None
    /\ CodecIdle
    /\ BuildIdle

NextMeta ==
    \/ \E w \in DOMAIN wpc : WriterOpen(w)
    \/ \E w \in DOMAIN wpc : WriterSetLen(w)
    \/ \E w \in DOMAIN wpc : WriterMap(w)
    \/ \E w \in DOMAIN wpc : WriterFill(w)
    \/ \E w \in DOMAIN wpc : WriterReadMetadata(w)
    \/ \E w \in DOMAIN wpc : WriterReadFails(w)
    \/ \E w \in DOMAIN wpc : WriterStoreFeatures(w)
    \/ \E w \in DOMAIN wpc : WriterStoreCiOffset(w)
    \/ \E w \in DOMAIN wpc : WriterStoreCiCompressedSize(w)
    \/ \E w \in DOMAIN wpc : WriterStoreCiUncompressedSize(w)
    \/ \E w \in DOMAIN wpc : WriterSyncData(w)
    \/ \E w \in DOMAIN wpc : WriterStoreMagic(w)
    \/ \E w \in DOMAIN wpc : WriterStoreMagic2(w)
    \/ \E w \in DOMAIN wpc : WriterDone(w)
    \/ ReaderOpen
    \/ ReaderMap
    \/ ReaderCheck
    \/ ReaderRetry

SpecMeta == InitMeta /\ [][NextMeta]_vars

(***************************************************************************)
(* Several processes run BlobMetaInfo::new with a backend reader on the    *)
(* meta file of the same blob, while a client opens it read-only, again    *)
(* and again.  new() takes no lock on the file.                            *)
(***************************************************************************)
MaxCreators == 2

\* The blobs the creators run on: every chunk count and array size, with a
\* header none of whose fields is zero and an array that is not
\* compressed: read_metadata then reads straight into the mapping and can
\* fail at any record, which covers what it does through the temporary
\* buffer of a compressed array.
SharedBlobInfos ==
    { bi \in BlobInfos :
        /\ bi.meta_flags # 0
        /\ bi.meta_ci_offset # 0
        /\ bi.meta_ci_compressor = "None" }

InitCreators ==
    /\ info \in SharedBlobInfos
    /\ file = NoFile
    /\ disk = Contents(NoFile)
    /\ wpc = [w \in 1..MaxCreators |-> "start"]
    /\ widx = [w \in 1..MaxCreators |-> 0]
    /\ wres = [w \in 1..MaxCreators |-> None]
    /\ rpc = "start"
    /\ rmapped = FALSE
    /\ rres = None
    /\ state = NoState
    /\ call = QueryIdle
    /\ ret = None
    /\ CodecIdle
    /\ BuildIdle

SpecCreators == InitCreators /\ [][NextMeta]_vars


(***************************************************************************)
(* Setters applied in any order to a chunk record with any previous        *)
(* content, and add_v1 on a new array.                                     *)
(***************************************************************************)
InitCodec ==
    /\ chunk \in InitialChunks
    /\ shadow = NoShadow
    /\ ci_array = new_v1
    /\ ci_args = <<>>
    /\ state = NoState
    /\ call = QueryIdle
    /\ ret = None
    /\ MetaIdle
    /\ BuildIdle

SpecCodec == InitCodec /\ [][NextCodec]_vars

(***************************************************************************)
(* One call on a chunk record with any previous content: a setter with a   *)
(* legal or an out-of-range argument, or add_v1 on a new array.  `call`    *)
(* keeps the call and the record it was made on, `ret` what it returned.   *)
(***************************************************************************)
SetterReturn(r) == IF r.ok THEN Ok("unit") ELSE Err(r.err)

CallSetCompressedOffset ==
    /\ call = QueryIdle
    /\ \E offset \in CompressedOffsets \cup BadCompressedOffsets :
         LET r == set_compressed_offset(chunk, offset)
         IN  /\ chunk' = r.chunk
             /\ call' = [op |-> "set_compressed_offset", arg |-> offset, before |-> chunk]
             /\ ret' = SetterReturn(r)
    /\ UNCHANGED <<bvars, state, mvars, shadow, ci_array, ci_args>>

CallSetCompressedSize ==
    /\ call = QueryIdle
    /\ \E size \in ChunkSizes \cup BadChunkSizes :
         LET r == set_compressed_size(chunk, size)
         IN  /\ chunk' = r.chunk
             /\ call' = [op |-> "set_compressed_size", arg |-> size, before |-> chunk]
             /\ ret' = SetterReturn(r)
    /\ UNCHANGED <<bvars, state, mvars, shadow, ci_array, ci_args>>

CallSetUncompressedOffset ==
    /\ call = QueryIdle
    /\ \E offset \in UncompressedOffsets \cup BadUncompressedOffsets :
         LET r == set_uncompressed_offset(chunk, offset)
         IN  /\ chunk' = r.chunk
             /\ call' = [op |-> "set_uncompressed_offset", arg |-> offset, before |-> chunk]
             /\ ret' = SetterReturn(r)
    /\ UNCHANGED <<bvars, state, mvars, shadow, ci_array, ci_args>>

CallSetUncompressedSize ==
    /\ call = QueryIdle
    /\ \E size \in ChunkSizes \cup BadChunkSizes :
         LET r == set_uncompressed_size(chunk, size)
         IN  /\ chunk' = r.chunk
             /\ call' = [op |-> "set_uncompressed_size", arg |-> size, before |-> chunk]
             /\ ret' = SetterReturn(r)
    /\ UNCHANGED <<bvars, state, mvars, shadow, ci_array, ci_args>>

\* new_v1() followed by add_v1(...), which returns nothing.
CallAddV1 ==
    /\ call = QueryIdle
    /\ \E co \in {{12}, 0..40}, cs \in {256, 0}, uo \in {{12}, 0..12}, us \in {1, 16777217} :
         /\ ci_array' = add_v1(new_v1, co, cs, uo, us)
         /\ ci_args' = <<[compressed_offset |-> co, compressed_size |-> cs,
                          uncompressed_offset |-> uo, uncompressed_size |-> us]>>
         /\ call' = [op |-> "add_v1"]
         /\ ret' = Ok("unit")
    /\ UNCHANGED <<bvars, state, mvars, chunk, shadow>>

NextSetterCall ==
    \/ CallSetCompressedOffset
    \/ CallSetCompressedSize
    \/ CallSetUncompressedOffset
    \/ CallSetUncompressedSize
    \/ CallAddV1

SpecSetterCall == InitCodec /\ [][NextSetterCall]_vars

(***************************************************************************)
(* Blob writers created one after the other on the same storage, as by     *)
(* successive image builds: each is written to, then released or dropped   *)
(* because the build failed.  The bytes a build writes are its number.     *)
(***************************************************************************)
NewWriter ==
    /\ writer = None
    /\ builds < MaxBuilds
    /\ \E blob_stor \in {SingleFile, BlobsDir}, tmp \in TempNames \ DOMAIN fs,
          fault \in {"none", "open", "try_clone"} :
         LET r == BlobBufferWriter_new(fs, blob_stor, tmp, fault)
         IN  /\ fs' = r.files
             /\ writer' = r.writer
             /\ wcall' = [op |-> "new", blob_stor |-> blob_stor, fault |-> fault]
             /\ wret' = r.ret
    /\ appended' = <<>>
    /\ builds' = builds + 1
    /\ UNCHANGED <<evars, qvars, mvars, cvars, dvars>>

WriteAll ==
    /\ writer # None
    /\ Len(appended) < MaxWrites
    /\ writer' = Some(write_all(writer.val, <<builds>>))
    /\ appended' = appended \o <<builds>>
    /\ wcall' = [op |-> "write_all"]
    /\ wret' = Ok("unit")
    /\ UNCHANGED <<evars, qvars, mvars, cvars, dvars, fs, builds>>

\* The BufWriter writes its buffer through to the file.
BufWriterSpill ==
    /\ writer # None
    /\ writer.val.buffer # <<>>
    /\ fs' = BufWriterFlush(fs, writer.val)
    /\ writer' = Some([writer.val EXCEPT !.buffer = <<>>])
    /\ UNCHANGED <<evars, qvars, mvars, cvars, dvars, appended, wcall, wret, builds>>

Release ==
    /\ writer # None
    /\ \E name \in {None} \cup {Some(n) : n \in BlobIds},
          fault \in {"none", "flush", "remove_file", "rename"} :
         LET r == release(fs, writer.val, name, fault)
         IN  /\ fs' = r.files
             /\ wcall' = [op |-> "release", name |-> name, fault |-> fault,
                          blob_stor |-> writer.val.blob_stor,
                          tmp_file |-> writer.val.tmp_file,
                          replaced |-> IF name.some /\ name.val \in DOMAIN fs
                                       THEN Some(fs[name.val]) ELSE None]
             /\ wret' = r.ret
    /\ writer' = None
    /\ UNCHANGED <<evars, qvars, mvars, cvars, dvars, appended, builds>>

\* The build fails (a read, a compression, a write_all): the error goes up
\* to main and the writer is dropped on the way.
BuildAborts ==
    /\ writer # None
    /\ fs' = DropWriter(fs, writer.val)
    /\ wcall' = [op |-> "drop", blob_stor |-> writer.val.blob_stor,
                 tmp_file |-> writer.val.tmp_file]
    /\ wret' = Err("io")
    /\ writer' = None
    /\ UNCHANGED <<evars, qvars, mvars, cvars, dvars, appended, builds>>

InitWriter ==
    /\ BuildIdle
    /\ state = NoState
    /\ call = QueryIdle
    /\ ret = None
    /\ MetaIdle
    /\ CodecIdle

NextWriter ==
    \/ NewWriter
    \/ WriteAll
    \/ BufWriterSpill
    \/ Release
    \/ BuildAborts

SpecWriter == InitWriter /\ [][NextWriter]_vars

(***************************************************************************)
(* A diff build with --diff-overlay-hint: the layers are built one after   *)
(* the other, each into a blob of its own, from the files its layer        *)
(* directory adds.  The blob of a layer is created when the layer starts   *)
(* and takes the next slot of the blob manager; its chunk cache starts     *)
(* empty; at the end of the layer the blob is released under its id, or    *)
(* discarded when nothing was written to it.                               *)
(***************************************************************************)
\* What the command line asks for, and whether the builder extends the
\* blob table from the chunk dictionary before the first layer.
BuildInputs ==
    { b \in
    { [phase |-> "init", layer |-> 0, blob_index |-> 0,
       blob_of_layer |-> <<>>, blob_tables |-> <<>>,
       aligned_chunk |-> a, blob_stor |-> s, parent |-> p,
       dict |-> d, extend_first |-> e] :
      a \in BOOLEAN, s \in {SingleFile, BlobsDir}, p \in BOOLEAN,
      d \in BOOLEAN, e \in BOOLEAN } : b.extend_first => b.dict }

\* Mutant: the chunk cache is carried over from one layer to the next.
LayerChunkCache_Kept(cache) == cache

\* The chunk cache a layer starts with.
LayerChunkCache(cache) == EmptyChunkCache

\* Mutant: the blob of a layer is always released under its id.
LayerBlobName_Always(blob_ctx) == Some("sha_" \o blob_ctx.blob_hash)

\* The name the blob of a layer is released under: its id, the hash of
\* what was written to it, or none when nothing was written.
LayerBlobName(blob_ctx) ==
    IF blob_ctx.compressed_blob_size > 0
    THEN Some("sha_" \o blob_ctx.blob_hash) ELSE None

\* Import of the parent bootstrap and of the chunk dictionary.
Prepare ==
    /\ bld.phase = "init"
    /\ LET imported == IF bld.parent
                        THEN from_blob_table(BlobManager_new, ParentBlobTable)
                        ELSE BlobManager_new
            dict == IF bld.dict THEN LoadedChunkDict ELSE NoChunkDict
            r == IF bld.extend_first
                 THEN extend_blob_table_from_chunk_dict(imported, dict)
                 ELSE [mgr |-> imported, dict |-> dict]
        IN  /\ blob_mgr' = r.mgr
            /\ chunk_dict' = r.dict
    /\ bld' = [bld EXCEPT !.phase = "layers"]
    /\ UNCHANGED <<evars, qvars, mvars, cvars, wvars, chunk_cache, nodes>>

LayerBegin ==
    /\ bld.phase = "layers"
    /\ bld.layer < MaxLayers
    /\ \E tmp \in TempNames \ DOMAIN fs :
         LET r == BlobBufferWriter_new(fs, bld.blob_stor, tmp, "none")
         IN  /\ fs' = r.files
             /\ writer' = r.writer
    /\ LET blob_index == BlobManager_alloc_index(blob_mgr)
        IN  /\ blob_mgr' = BlobManager_add(blob_mgr,
                             set_meta_info_enabled(BlobContext_new(""), TRUE))
            /\ bld' = [bld EXCEPT !.phase = "chunk", !.blob_index = blob_index,
                                  !.blob_of_layer = Append(@, blob_index)]
    /\ chunk_cache' = LayerChunkCache(chunk_cache)
    /\ UNCHANGED <<evars, qvars, mvars, cvars, appended, wcall, wret, builds, chunk_dict, nodes>>

\* What dump_blob is called with for a node of the current layer.
DumpState(node) ==
    LET blob_ctx == BlobAt(blob_mgr, bld.blob_index)
    IN  [chunks |-> node.chunks, blob_size |-> 0,
         inode_hasher |-> RafsDigest_hasher,
         f_blob |-> writer.val,
         blob_hash |-> blob_ctx.blob_hash,
         blob_meta_info |-> blob_ctx.blob_meta_info,
         blob_meta_info_enabled |-> blob_ctx.blob_meta_info_enabled,
         compress_offset |-> blob_ctx.compress_offset,
         decompress_offset |-> blob_ctx.decompress_offset,
         chunk_count |-> blob_ctx.chunk_count,
         chunk_cache |-> chunk_cache,
         mgr |-> blob_mgr, dict |-> chunk_dict]

\* One regular file of the layer goes through dump_blob.
DumpFile ==
    /\ bld.phase = "chunk"
    /\ Len(nodes) < MaxNodes
    /\ \E data \in Files :
         LET node == NewNode(bld.layer, data)
             st == dump_blob(node, DumpState(node), bld.blob_index)
         IN  /\ nodes' = Append(nodes, [node EXCEPT
                                  !.chunks = st.chunks,
                                  !.i_digest = digest_finalize(st.inode_hasher)])
             /\ writer' = Some(st.f_blob)
             /\ chunk_cache' = st.chunk_cache
             /\ chunk_dict' = st.dict
             /\ blob_mgr' =
                    [st.mgr EXCEPT !.blobs[bld.blob_index + 1] =
                        [@ EXCEPT !.blob_hash = st.blob_hash,
                                  !.blob_meta_info = st.blob_meta_info,
                                  !.compress_offset = st.compress_offset,
                                  !.decompress_offset = st.decompress_offset,
                                  !.chunk_count = st.chunk_count,
                                  !.compressed_blob_size = @ + st.blob_size,
                                  !.decompressed_blob_size = st.decompress_offset]]
    /\ UNCHANGED <<evars, qvars, mvars, cvars, fs, appended, wcall, wret, builds, bld>>

\* The layer is done: its blob is released and its bootstrap is written.
LayerEnd ==
    /\ bld.phase = "chunk"
    /\ LET blob_ctx == BlobAt(blob_mgr, bld.blob_index)
            name == LayerBlobName(blob_ctx)
            r == release(fs, writer.val, name, "none")
            mgr == [blob_mgr EXCEPT !.blobs[bld.blob_index + 1].blob_id =
                        IF name.some THEN name.val ELSE @]
        IN  /\ fs' = r.files
            /\ blob_mgr' = mgr
            /\ bld' = [bld EXCEPT !.phase = "layers", !.layer = @ + 1,
                                  !.blob_tables = Append(@, to_blob_table(mgr))]
    /\ writer' = None
    /\ UNCHANGED <<evars, qvars, mvars, cvars, appended, wcall, wret, builds,
                   chunk_dict, chunk_cache, nodes>>

\* A read or a write fails while a layer is dumped: the error goes up to
\* main and the blob writer is dropped on the way.
BuildFails ==
    /\ bld.phase = "chunk"
    /\ fs' = DropWriter(fs, writer.val)
    /\ writer' = None
    /\ bld' = [bld EXCEPT !.phase = "failed"]
    /\ UNCHANGED <<evars, qvars, mvars, cvars, appended, wcall, wret, builds,
                   blob_mgr, chunk_dict, chunk_cache, nodes>>

\* All layers are built.
Finish ==
    /\ bld.phase = "layers"
    /\ bld.layer >= 1
    /\ bld' = [bld EXCEPT !.phase = "done"]
    /\ UNCHANGED <<evars, qvars, mvars, cvars, wvars, blob_mgr, chunk_dict, chunk_cache, nodes>>

InitBuild ==
    /\ state = NoState
    /\ call = QueryIdle
    /\ ret = None
    /\ MetaIdle
    /\ CodecIdle
    /\ fs = NoFiles
    /\ writer = None
    /\ appended = <<>>
    /\ wcall = WriterIdle
    /\ wret = None
    /\ builds = 0
    /\ bld \in BuildInputs
    /\ blob_mgr = BlobManager_new
    /\ chunk_dict = NoChunkDict
    /\ chunk_cache = EmptyChunkCache
    /\ nodes = <<>>
    /\ NoCalls

NextBuild ==
    \/ Prepare
    \/ LayerBegin
    \/ DumpFile
    \/ LayerEnd
    \/ BuildFails
    \/ Finish

SpecBuild == InitBuild /\ [][NextBuild]_vars

\* The size of the block reserved at the start of the bootstrap.
EROFS_BLKSIZE == 4096

\* BootstrapContext::new: the bootstrap written so far, the number of
\* nodes dumped and the position to write at.
BootstrapContext_new ==
    [op |-> "new", f_bootstrap |-> <<>>, dumped |-> 0, offset |-> EROFS_BLKSIZE]

\* Mutant: the offset is rounded down.
align_offset_Down(offset, align_size) == (offset \div align_size) * align_size

\* BootstrapContext::align_offset: the offset after the call.
align_offset(offset, align_size) ==
    IF offset % align_size > 0
    THEN div_round_up(offset, align_size) * align_size
    ELSE offset

\* What dump_blob is called with for the first file of a new blob, without
\* chunk dictionary.
NewBlobState ==
    [chunks |-> <<>>, blob_size |-> 0,
     inode_hasher |-> RafsDigest_hasher,
     f_blob |-> [blob_stor |-> SingleFile, tmp_file |-> None, buffer |-> <<>>],
     blob_hash |-> "", blob_meta_info |-> <<>>,
     blob_meta_info_enabled |-> FALSE,
     compress_offset |-> 0, decompress_offset |-> 0,
     chunk_count |-> 0, chunk_cache |-> EmptyChunkCache,
     mgr |-> BlobManager_new, dict |-> NoChunkDict]

(***************************************************************************)
(* Nodes written to the bootstrap one after the other by dump_bootstrap.   *)
(* A node comes with the chunk list dump_blob left it with: none when it   *)
(* was not dumped, part of it when dump_blob failed on the way, all of it, *)
(* or more when dump_blob ran twice.  An error ends the build.             *)
(***************************************************************************)
\* The chunk lists a regular file with this data can carry.
ChunkLists(data) ==
    LET st == NewBlobState
        once == dump_blob(NewNode(0, data), st, 0)
        twice == dump_blob([NewNode(0, data) EXCEPT !.chunks = once.chunks], once, 0)
    IN  { SubSeq(twice.chunks, 1, k) : k \in 0..Len(twice.chunks) }

DumpBootstrap ==
    /\ bootstrap.op = "dump_bootstrap" => bootstrap.ret.ok
    /\ bootstrap.dumped < MaxNodes
    /\ \E data \in Files :
         \E chunks \in ChunkLists(data) :
            LET node == [NewNode(0, data) EXCEPT !.chunks = chunks]
                r == dump_bootstrap(node, bootstrap.f_bootstrap)
            IN  bootstrap' = [op |-> "dump_bootstrap", node |-> node,
                              before |-> bootstrap.f_bootstrap,
                              f_bootstrap |-> r.f_bootstrap, ret |-> r.ret,
                              dumped |-> bootstrap.dumped + 1,
                              offset |-> bootstrap.offset]
    /\ UNCHANGED <<qvars, mvars, cvars, wvars, dvars, cmd>>

InitBootstrap ==
    /\ state = NoState
    /\ call = QueryIdle
    /\ ret = None
    /\ MetaIdle
    /\ CodecIdle
    /\ fs = NoFiles
    /\ writer = None
    /\ appended = <<>>
    /\ wcall = WriterIdle
    /\ wret = None
    /\ builds = 0
    /\ NoImage
    /\ bootstrap = BootstrapContext_new
    /\ cmd = [op |-> "idle"]

SpecBootstrap == InitBootstrap /\ [][DumpBootstrap]_vars

(***************************************************************************)
(* The write offset of the BootstrapContext.                               *)
(***************************************************************************)

\* Largest number of bytes the emitter writes behind the reserved block.
MaxSpan == 300

\* The sizes align_offset is called with, and the sizes of the pieces the
\* emitter writes.
AlignSizes == {1, 8, 64, 128, EROFS_BLKSIZE, 2 * EROFS_BLKSIZE}

WriteSizes == {1, 24, 128}

\* BootstrapContext::align_offset
AlignOffset ==
    /\ \E align_size \in AlignSizes :
         bootstrap' = [op |-> "align_offset", f_bootstrap |-> bootstrap.f_bootstrap,
                       dumped |-> bootstrap.dumped, align_size |-> align_size,
                       before |-> bootstrap.offset,
                       offset |-> align_offset(bootstrap.offset, align_size)]
    /\ UNCHANGED <<qvars, mvars, cvars, wvars, dvars, cmd>>

\* The emitter wrote `size` bytes at the offset.
AdvanceOffset ==
    /\ \E size \in WriteSizes :
         /\ bootstrap.offset + size <= EROFS_BLKSIZE + MaxSpan
         /\ bootstrap' = [op |-> "write", f_bootstrap |-> bootstrap.f_bootstrap,
                          dumped |-> bootstrap.dumped, size |-> size,
                          before |-> bootstrap.offset,
                          offset |-> bootstrap.offset + size]
    /\ UNCHANGED <<qvars, mvars, cvars, wvars, dvars, cmd>>

NextOffset == AlignOffset \/ AdvanceOffset

SpecOffset == InitBootstrap /\ [][NextOffset]_vars

(***************************************************************************)
(* A diff build that skips its first layers: the parent bootstrap holds    *)
(* their files, and a chunk dictionary that knows their chunks is given,   *)
(* as in the third build of tests/diff.rs.  The files of a skipped layer   *)
(* are taken over without a blob of their own; the layers after them are   *)
(* built as in SpecBuild.                                                  *)
(***************************************************************************)
\* The file the parent bootstrap holds for layer l.  Each layer of the
\* parent wrote the chunk to its own blob: the file of layer 0 cites blob
\* 0, the files of the later layers blob 1.
ParentFile(l) ==
    [data |-> <<"C3">>,
     chunks |-> << [OndiskChunkInfo_new EXCEPT !.block_id = "C3",
                                               !.blob_index = IF l = 0 THEN 0 ELSE 1,
                                               !.compress_size = 4096,
                                               !.decompress_size = 4096] >>]

\* Mutant: a chunk of a skipped layer keeps the reference of the parent.
import_chunk_Kept(md, parent_chunk) ==
    [mgr |-> md.mgr, dict |-> md.dict, chunk |-> parent_chunk]

\* One chunk of a file of a skipped layer: it is cited as the dictionary
\* records it, in the blob the dictionary has it in.
import_chunk(md, parent_chunk) ==
    LET dict_chunk == get_chunk(md.dict, parent_chunk.block_id)
    IN  IF dict_chunk.some
        THEN LET r == DictBlobIndex(md, dict_chunk.val.blob_index)
             IN  [mgr |-> r.mgr, dict |-> r.dict,
                  chunk |-> [dict_chunk.val EXCEPT
                                !.blob_index = r.blob_index,
                                !.file_offset = parent_chunk.file_offset]]
        ELSE [mgr |-> md.mgr, dict |-> md.dict, chunk |-> parent_chunk]

RECURSIVE import_chunks(_, _, _)
import_chunks(st, parent_chunks, i) ==
    IF i > Len(parent_chunks) THEN st
    ELSE LET r == import_chunk([mgr |-> st.mgr, dict |-> st.dict], parent_chunks[i])
         IN  import_chunks([mgr |-> r.mgr, dict |-> r.dict,
                            chunks |-> Append(st.chunks, r.chunk)],
                           parent_chunks, i + 1)

SkipInputs ==
    { [phase |-> "init", layer |-> 0, blob_index |-> 0,
       blob_of_layer |-> <<>>, blob_tables |-> <<>>,
       aligned_chunk |-> a, blob_stor |-> s, parent |-> TRUE,
       dict |-> TRUE, extend_first |-> e, skip_layers |-> k, skipped |-> 0] :
      a \in BOOLEAN, s \in {SingleFile, BlobsDir}, e \in BOOLEAN, k \in 1..MaxLayers }

\* The next layer is one of the skipped ones: its file gets its chunk
\* references, and the bootstrap of the layer its blob table.
SkipLayer ==
    /\ bld.phase = "layers"
    /\ bld.skipped < bld.skip_layers
    /\ LET pfile == ParentFile(bld.skipped)
           r == import_chunks([mgr |-> blob_mgr, dict |-> chunk_dict, chunks |-> <<>>],
                              pfile.chunks, 1)
           node == [layer |-> bld.skipped, data |-> pfile.data,
                    i_size |-> FileSize(pfile.data),
                    i_child_count |-> Len(pfile.chunks),
                    chunks |-> r.chunks, parent_chunks |-> pfile.chunks]
       IN  /\ nodes' = Append(nodes, node)
           /\ blob_mgr' = r.mgr
           /\ chunk_dict' = r.dict
           /\ bld' = [bld EXCEPT !.skipped = @ + 1,
                                 !.blob_tables = Append(@, to_blob_table(r.mgr))]
    /\ UNCHANGED <<evars, qvars, mvars, cvars, wvars, chunk_cache>>

\* The layers after the skipped ones.
BuildLayer ==
    /\ bld.phase # "layers" \/ bld.skipped = bld.skip_layers
    /\ \/ LayerBegin
       \/ DumpFile
       \/ LayerEnd
       \/ BuildFails
       \/ Finish

InitSkip ==
    /\ state = NoState
    /\ call = QueryIdle
    /\ ret = None
    /\ MetaIdle
    /\ CodecIdle
    /\ fs = NoFiles
    /\ writer = None
    /\ appended = <<>>
    /\ wcall = WriterIdle
    /\ wret = None
    /\ builds = 0
    /\ bld \in SkipInputs
    /\ blob_mgr = BlobManager_new
    /\ chunk_dict = NoChunkDict
    /\ chunk_cache = EmptyChunkCache
    /\ nodes = <<>>
    /\ NoCalls

NextSkip == Prepare \/ SkipLayer \/ BuildLayer

SpecSkip == InitSkip /\ [][NextSkip]_vars

(***************************************************************************)
(* The BlobManager and the BlobContexts on their own: the calls a builder  *)
(* makes on them, in any order.                                            *)
(***************************************************************************)

\* Largest number of contexts added under an id of their own; the ones
\* added behind them have no id yet.
MaxBlobs == 2
\* Largest number of contexts of a manager whose current context still
\* hands out chunk indexes.
MaxFilled == 1

\* extend_blob_table_from_chunk_dict unwraps alloc_index: it panics when a
\* blob of the dictionary needs a slot and the list is full.
ExtendPanics(mgr) ==
    LET need == Cardinality({ b \in 1..Len(DictBlobs) :
                                ~get_blob_idx_by_id(mgr, DictBlobs[b].blob_id).some })
    IN  need > 0 /\ Len(mgr.blobs) + need - 1 > U32_MAX

\* BlobManager::from_blob_table on a new manager
MgrImport ==
    /\ cmd.op = "new"
    /\ blob_mgr' = from_blob_table(blob_mgr, ParentBlobTable)
    /\ cmd' = [op |-> "from_blob_table"]
    /\ UNCHANGED <<qvars, mvars, cvars, wvars, bld, chunk_dict, chunk_cache, nodes, bootstrap>>

\* BlobManager::set_chunk_dict
MgrSetDict ==
    /\ cmd.op # "panic"
    /\ ~chunk_dict.present
    /\ chunk_dict' = LoadedChunkDict
    /\ cmd' = [op |-> "set_chunk_dict"]
    /\ UNCHANGED <<qvars, mvars, cvars, wvars, bld, blob_mgr, chunk_cache, nodes, bootstrap>>

\* alloc_index()? and then add(ctx), as a builder does for a new blob
MgrAdd ==
    /\ cmd.op # "panic"
    /\ \E id \in IF Len(blob_mgr.blobs) < MaxBlobs THEN {"", "a1"} ELSE {""} :
         LET r == u32_try_from(Len(blob_mgr.blobs))
             ctx == BlobContext_new(id)
         IN  IF r.ok
             THEN /\ blob_mgr' = BlobManager_add(blob_mgr, ctx)
                  /\ cmd' = [op |-> "add", ret |-> r, ctx |-> ctx]
             ELSE /\ cmd' = [op |-> "alloc_index", ret |-> r]
                  /\ UNCHANGED blob_mgr
    /\ UNCHANGED <<qvars, mvars, cvars, wvars, bld, chunk_dict, chunk_cache, nodes, bootstrap>>

\* BlobManager::extend_blob_table_from_chunk_dict
MgrExtend ==
    /\ cmd.op \notin {"panic", "extend"}
    /\ chunk_dict.present
    /\ IF ExtendPanics(blob_mgr)
       THEN /\ cmd' = [op |-> "panic"]
            /\ UNCHANGED <<blob_mgr, chunk_dict>>
       ELSE LET r == extend_blob_table_from_chunk_dict(blob_mgr, chunk_dict)
            IN  /\ blob_mgr' = r.mgr
                /\ chunk_dict' = r.dict
                /\ cmd' = [op |-> "extend"]
    /\ UNCHANGED <<qvars, mvars, cvars, wvars, bld, chunk_cache, nodes, bootstrap>>

\* BlobContext::alloc_index on current()
MgrAllocChunk ==
    /\ cmd.op # "panic"
    /\ current(blob_mgr).some
    /\ Len(blob_mgr.blobs) <= MaxFilled
    /\ cmd.op = "chunk_index" => cmd.ret.ok
    /\ LET r == BlobContext_alloc_index(current(blob_mgr).val)
       IN  /\ blob_mgr' = [blob_mgr EXCEPT !.blobs[Len(blob_mgr.blobs)] = r.ctx]
           /\ cmd' = [op |-> "chunk_index", ret |-> r.ret]
    /\ UNCHANGED <<qvars, mvars, cvars, wvars, bld, chunk_dict, chunk_cache, nodes, bootstrap>>

InitManager ==
    /\ state = NoState
    /\ call = QueryIdle
    /\ ret = None
    /\ MetaIdle
    /\ CodecIdle
    /\ fs = NoFiles
    /\ writer = None
    /\ appended = <<>>
    /\ wcall = WriterIdle
    /\ wret = None
    /\ builds = 0
    /\ NoImage
    /\ bootstrap = [op |-> "idle"]
    /\ cmd = [op |-> "new"]

NextManager ==
    \/ MgrImport
    \/ MgrSetDict
    \/ MgrAdd
    \/ MgrExtend
    \/ MgrAllocChunk

SpecManager == InitManager /\ [][NextManager]_vars

(***************************************************************************)
(* The create command up to the start of the build: the order in which it  *)
(* reads its arguments, looks at the file system and opens files.  io is   *)
(* the list of the files it has opened or created.                         *)
(***************************************************************************)
BLOB_ID_MAXIMUM_LENGTH == 255
RAFS_DEFAULT_CHUNK_SIZE == 1048576
MIN_CHUNK_SIZE == 4096

RECURSIVE is_power_of_two(_)
is_power_of_two(n) ==
    IF n <= 0 THEN FALSE
    ELSE IF n = 1 THEN TRUE
    ELSE n % 2 = 0 /\ is_power_of_two(n \div 2)

\* The arguments and what they name in the file system: blob_id is the
\* length of --blob-id, chunk_size the number --chunk-size spells in hex
\* (NotHex when it spells none), parent_bootstrap and source what is found
\* at their paths.
NotHex == 0 - 1

CreateArgs ==
    [blob_id : {None, Some(0), Some(BLOB_ID_MAXIMUM_LENGTH), Some(BLOB_ID_MAXIMUM_LENGTH + 1)},
     bootstrap : BOOLEAN,
     chunk_size : {None, Some(NotHex), Some(2048), Some(MIN_CHUNK_SIZE), Some(12288),
                   Some(RAFS_DEFAULT_CHUNK_SIZE), Some(2 * RAFS_DEFAULT_CHUNK_SIZE)},
     parent_bootstrap : {"none", "file", "missing"},
     source_type : {"Directory", "Diff", "StargzIndex"},
     source : {"dir", "file", "missing"},
     blob_dir : {"none", "dir", "missing"}]

get_blob_id(args) ==
    IF args.blob_id = None THEN Ok(0)
    ELSE IF args.blob_id.val > BLOB_ID_MAXIMUM_LENGTH
         THEN Err("blob id is limited to length")
         ELSE Ok(args.blob_id.val)

get_bootstrap(args) ==
    IF args.bootstrap THEN Ok("bootstrap") ELSE Err("missing parameter bootstrap")

\* Mutant: any number is accepted as the chunk size.
get_chunk_size_Unchecked(args) ==
    IF args.chunk_size = None THEN Ok(RAFS_DEFAULT_CHUNK_SIZE)
    ELSE IF args.chunk_size.val = NotHex THEN Err("invalid chunk size")
    ELSE Ok(args.chunk_size.val)

get_chunk_size(args) ==
    IF args.chunk_size = None THEN Ok(RAFS_DEFAULT_CHUNK_SIZE)
    ELSE IF args.chunk_size.val = NotHex THEN Err("invalid chunk size")
    ELSE LET chunk_size == args.chunk_size.val
         IN  IF \/ chunk_size > RAFS_DEFAULT_CHUNK_SIZE
                \/ chunk_size < MIN_CHUNK_SIZE
                \/ ~is_power_of_two(chunk_size)
             THEN Err("invalid chunk size")
             ELSE Ok(chunk_size)

\* The parent bootstrap, when one is named, is opened for reading here.
get_parent_bootstrap(args) ==
    IF args.parent_bootstrap = "none" THEN [ret |-> Ok(None), io |-> <<>>]
    ELSE IF args.parent_bootstrap = "missing"
         THEN [ret |-> Err("failed to open parent bootstrap file"), io |-> <<>>]
         ELSE [ret |-> Ok(Some("parent_bootstrap")),
               io |-> << [op |-> "open_read", file |-> "parent_bootstrap"] >>]

get_blob_storage(args) ==
    IF args.source_type \in {"Directory", "Diff"}
    THEN IF args.blob_dir = "none" THEN Ok(Some(SingleFile))
         ELSE IF args.blob_dir = "missing"
              THEN Err("Directory holding blobs does not exist")
              ELSE Ok(Some(BlobsDir))
    ELSE Ok(None)

\* The match on source_type: metadata() of the source and its kind.
check_source(args, blob_id) ==
    IF args.source = "missing" THEN Err("failed to get source path")
    ELSE IF args.source_type \in {"Directory", "Diff"}
         THEN IF args.source # "dir" THEN Err("source must be a directory")
              ELSE Ok("source")
         ELSE IF args.source # "file" THEN Err("source must be a JSON file")
              ELSE IF blob_id = 0 THEN Err("blob-id can't be empty")
                   ELSE Ok("source")

create(args) ==
    LET blob_id == get_blob_id(args)
        bootstrap_path == get_bootstrap(args)
        chunk_size == get_chunk_size(args)
        parent == get_parent_bootstrap(args)
        blob_stor == get_blob_storage(args)
        source == check_source(args, blob_id.val)
    IN  IF ~blob_id.ok THEN [ret |-> blob_id, io |-> <<>>]
        ELSE IF ~bootstrap_path.ok THEN [ret |-> bootstrap_path, io |-> <<>>]
        ELSE IF ~chunk_size.ok THEN [ret |-> chunk_size, io |-> <<>>]
        ELSE IF ~parent.ret.ok THEN [ret |-> parent.ret, io |-> parent.io]
        ELSE IF ~blob_stor.ok THEN [ret |-> blob_stor, io |-> parent.io]
        ELSE IF ~source.ok THEN [ret |-> source, io |-> parent.io]
        ELSE [ret |-> Ok("build"),
              io |-> Append(parent.io, [op |-> "create_truncate", file |-> "bootstrap"])]

CreateCall ==
    /\ cmd.op = "idle"
    /\ \E args \in CreateArgs :
         LET r == create(args)
         IN  cmd' = [op |-> "create", args |-> args, ret |-> r.ret, io |-> r.io]
    /\ UNCHANGED <<qvars, mvars, cvars, wvars, dvars, bootstrap>>

InitCreate ==
    /\ state = NoState
    /\ call = QueryIdle
    /\ ret = None
    /\ MetaIdle
    /\ CodecIdle
    /\ fs = NoFiles
    /\ writer = None
    /\ appended = <<>>
    /\ wcall = WriterIdle
    /\ wret = None
    /\ builds = 0
    /\ NoImage
    /\ NoCalls

SpecCreate == InitCreate /\ [][CreateCall]_vars

(***************************************************************************)
(* Properties of the queries.  The spans below are written out from the    *)
(* record fields, not through the accessors the queries use.               *)
(***************************************************************************)
\* The end up to which a chunk covers its coordinate space: the 4 KiB
\* aligned end in uncompressed coordinates.
CoverHi(c, compressed) ==
    IF compressed THEN c.compressed_offset + c.compressed_size
                  ELSE ((c.uncompressed_offset + c.uncompressed_size + 4095) \div 4096) * 4096

Covering(st, addr, compressed) ==
    { i \in 0..(Len(st.chunks) - 1) :
        Lo(st.chunks[i + 1], compressed) <= addr /\ addr < Hi(st.chunks[i + 1], compressed) }

IsRangeQuery == call.op \in {"get_chunks_uncompressed", "get_chunks_compressed"}

QueryCompressed == call.op = "get_chunks_compressed"

\* C4: on a sorted, non-overlapping chunk array get_chunk_index_nocheck(a)
\* returns i exactly when offset_i <= a < end_i in the selected coordinate
\* space, and an error when a is in a hole or at/after the last chunk's end.
C4_SearchReturnsCoveringChunk ==
    call.op = "get_chunk_index_nocheck" =>
        LET covering == Covering(state, call.addr, call.compressed)
        IN  IF covering = {}
            THEN ~ret.ok
            ELSE ret.ok /\ covering = {ret.val}

C4_Witness ==
    /\ call.op = "get_chunk_index_nocheck"
    /\ Len(state.chunks) = 3
    /\ ret.ok /\ ret.val = 2
    /\ state.chunks[3].uncompressed_offset > CoverHi(state.chunks[2], FALSE)

\* C5, as stated: when the address equals the end of chunk i and a hole
\* follows chunk i, the search returns index i + 1.
C5_HoleBoundaryReturnsNext ==
    call.op = "get_chunk_index_nocheck" =>
        \A i \in 0..(Len(state.chunks) - 2) :
            (/\ call.addr = Hi(state.chunks[i + 1], call.compressed)
             /\ call.addr < Lo(state.chunks[i + 2], call.compressed))
            => (ret.ok /\ ret.val = i + 1)

\* C5, amended: when the address equals the end of chunk i, the search
\* returns i + 1 exactly when chunk i + 1 starts at that address; at a hole
\* boundary, and after the last chunk, it returns an error.
C5_EndOfChunkReturnsNextOnlyIfContiguous ==
    call.op = "get_chunk_index_nocheck" =>
        \A i \in 0..(Len(state.chunks) - 1) :
            call.addr = Hi(state.chunks[i + 1], call.compressed) =>
                IF i + 1 < Len(state.chunks)
                   /\ Lo(state.chunks[i + 2], call.compressed) = call.addr
                THEN ret.ok /\ ret.val = i + 1
                ELSE ~ret.ok

C5_Witness ==
    /\ call.op = "get_chunk_index_nocheck"
    /\ ~call.compressed
    /\ Len(state.chunks) >= 2
    /\ call.addr = Hi(state.chunks[1], FALSE)
    /\ call.addr < Lo(state.chunks[2], FALSE)
    /\ ~ret.ok

\* C6: a successful range query returns a non-empty list of chunks of the
\* blob with consecutive ascending indices; the first chunk's span contains
\* start and the last chunk's (aligned) end is >= start + size.
C6_RangeQueryCovers ==
    (IsRangeQuery /\ ret.ok) =>
        LET vec == ret.val
            first == state.chunks[vec[1].id + 1]
            last == state.chunks[vec[Len(vec)].id + 1]
        IN  /\ Len(vec) >= 1
            /\ \A k \in 1..Len(vec) :
                 /\ vec[k].blob_index = state.blob_index
                 /\ vec[k].id = vec[1].id + (k - 1)
                 /\ vec[k].id < Len(state.chunks)
            /\ Lo(first, QueryCompressed) <= call.start
            /\ call.start < Hi(first, QueryCompressed)
            /\ CoverHi(last, QueryCompressed) >= call.start + call.size

C6_Witness ==
    /\ call.op = "get_chunks_uncompressed"
    /\ ret.ok
    /\ Len(ret.val) = 3
    /\ call.size = 12289

\* The first address of [start, start + size) that no chunk covers, if
\* any: it is start itself or the covered end of some chunk.
Uncovered(st, start, size, compressed) ==
    { b \in {start} \cup { CoverHi(st.chunks[i], compressed) : i \in 1..Len(st.chunks) } :
        /\ start <= b /\ b < start + size
        /\ \A i \in 1..Len(st.chunks) :
             ~(Lo(st.chunks[i], compressed) <= b /\ b < CoverHi(st.chunks[i], compressed)) }

\* C7: on a non-stargz blob a range query whose range includes a byte that
\* no chunk covers returns an error.
C7_UncoveredRangeFails ==
    (IsRangeQuery /\ ~state.is_stargz
       /\ Uncovered(state, call.start, call.size, QueryCompressed) # {})
    => ~ret.ok

\* The query starts inside the first chunk, crosses the hole before the
\* second chunk, and fails.
C7_Witness ==
    /\ call.op = "get_chunks_uncompressed"
    /\ ~state.is_stargz
    /\ Len(state.chunks) >= 2
    /\ call.start = 0
    /\ state.chunks[2].uncompressed_offset > CoverHi(state.chunks[1], FALSE)
    /\ call.start + call.size > state.chunks[2].uncompressed_offset
    /\ call.start + call.size <= state.uncompressed_size
    /\ \A i \in 1..Len(state.chunks) : validate_chunk(state, state.chunks[i]).ok
    /\ ~ret.ok


DeclaredTotal(st, compressed) ==
    IF compressed THEN st.compressed_size ELSE st.uncompressed_size

RangeOutOfBlob ==
    \/ call.size > U64_MAX - call.start
    \/ call.start + call.size > DeclaredTotal(state, QueryCompressed)

\* C8, as stated: a range query fails when start + size overflows or
\* exceeds the declared size, fails when a visited chunk ends beyond the
\* declared compressed or uncompressed total, and never returns a chunk
\* lying outside the declared totals.
C8_NoChunkOutsideDeclaredTotals ==
    IsRangeQuery =>
        /\ RangeOutOfBlob => ~ret.ok
        /\ ret.ok =>
             \A k \in 1..Len(ret.val) :
                LET c == state.chunks[ret.val[k].id + 1]
                IN  /\ c.compressed_offset + c.compressed_size <= state.compressed_size
                    /\ c.uncompressed_offset + c.uncompressed_size <= state.uncompressed_size

\* C8, amended: as stated, except that on a stargz blob the chunks are
\* checked against the declared uncompressed total only.
C8_NoChunkOutsideCheckedTotals ==
    IsRangeQuery =>
        /\ RangeOutOfBlob => ~ret.ok
        /\ \A i \in Covering(state, call.start, QueryCompressed) :
             LET c == state.chunks[i + 1]
             IN  (\/ c.uncompressed_offset + c.uncompressed_size > state.uncompressed_size
                  \/ (~state.is_stargz
                      /\ c.compressed_offset + c.compressed_size > state.compressed_size))
                 => ~ret.ok
        /\ ret.ok =>
             \A k \in 1..Len(ret.val) :
                LET c == state.chunks[ret.val[k].id + 1]
                IN  /\ c.uncompressed_offset + c.uncompressed_size <= state.uncompressed_size
                    /\ ~state.is_stargz =>
                         c.compressed_offset + c.compressed_size <= state.compressed_size

\* The chunk that holds start ends beyond the declared uncompressed total,
\* the range itself lies within it, and the query fails.
C8_Witness ==
    /\ call.op = "get_chunks_uncompressed"
    /\ ~RangeOutOfBlob
    /\ \E i \in Covering(state, call.start, FALSE) :
          Hi(state.chunks[i + 1], FALSE) > state.uncompressed_size
    /\ ~ret.ok

\* C9, as stated: add_more_chunks returns None whenever no chunk can be
\* appended; a returned list is strictly longer than tail.
C9_SomeIsStrictlyLonger ==
    (call.op = "add_more_chunks" /\ ret.some) => Len(ret.val) > Len(call.chunks)


(***************************************************************************)
(* Properties of the creation of the meta file.                            *)
(***************************************************************************)
\* The writer has stored s_magic2, the last store of new().
FinalMagicStored(w) ==
    \/ wpc[w] \in {"sync_data2", "return"}
    \/ wpc[w] = "done" /\ wres[w].ok

\* A non-magic header field has been stored.
HeaderFieldStored(header) ==
    \E f \in {"s_features", "s_ci_offset", "s_ci_compressed_size", "s_ci_uncompressed_size"} :
        header[f] # 0

MagicStored(header) ==
    header.s_magic # ZeroWord \/ header.s_magic2 # ZeroWord

FieldsMatch(header, bi) ==
    \A f \in {"s_features", "s_ci_offset", "s_ci_compressed_size", "s_ci_uncompressed_size"} :
        header[f] = Expected(bi, f)

\* C1: a read-only open that has mapped the sized file and ends its header
\* inspection before the writer's final magic store fails with "not ready".
C1_NotReadyBeforeFinalMagic ==
    \A w \in DOMAIN wpc :
        (rpc = "done" /\ rmapped /\ ~FinalMagicStored(w)) => rres = Err("enoent")

\* The open fails although the array, the header fields and the first
\* magic word are in place.
C1_Witness ==
    /\ rpc = "done" /\ rmapped
    /\ rres = Err("enoent")
    /\ wpc[1] = "s_magic2"
    /\ file.header.s_magic = BLOB_METADATA_MAGIC
    /\ file.array = info.array

\* C2: whenever a read-only open succeeds, the array in the file is
\* completely written and equals the blob's array, and the header is valid.
C2_SuccessfulOpenSeesWholeArray ==
    (rpc = "done" /\ rres.ok) =>
        /\ file.array = info.array
        /\ HeaderValid(file.header, info)

\* The open succeeds while the writer is still inside new().
C2_Witness ==
    /\ rpc = "done" /\ rres.ok
    /\ wpc[1] = "sync_data2"
    /\ info.chunk_count = MaxEntries

\* C3, as stated: array, fsync, header fields, fsync, magic words, fsync.
\* The array is on stable storage when the first header field is stored,
\* the header fields are when the first magic word is stored, and all of
\* the file is when new() returns.
C3_SyncBetweenArrayAndHeader ==
    /\ HeaderFieldStored(file.header) => disk.array = info.array
    /\ MagicStored(file.header) =>
         (disk.array = info.array /\ FieldsMatch(disk.header, info))
    /\ \A w \in DOMAIN wpc :
         (wpc[w] = "done" /\ wres[w].ok) => disk = Contents(file)

\* C3, amended: array, header fields, fsync, magic words, fsync.  The
\* array is complete in the file when the first header field is stored,
\* nothing is synced before the header fields are stored, array and header
\* fields are on stable storage when the first magic word is stored, and
\* all of the file is when new() returns.
C3_SyncBeforeAndAfterMagic ==
    /\ HeaderFieldStored(file.header) => file.array = info.array
    /\ \A w \in DOMAIN wpc :
         wpc[w] \in {"fill", "read_metadata", "s_features", "s_ci_offset",
                     "s_ci_compressed_size", "s_ci_uncompressed_size", "sync_data"}
         => disk = Contents(NoFile)
    /\ MagicStored(file.header) =>
         (disk.array = info.array /\ FieldsMatch(disk.header, info))
    /\ file.header.s_magic2 # ZeroWord => file.header.s_magic = BLOB_METADATA_MAGIC
    /\ \A w \in DOMAIN wpc :
         (wpc[w] = "done" /\ wres[w].ok) =>
             (disk = Contents(file) /\ HeaderValid(disk.header, info))

\* Between the two sync_data calls: array and header fields are on stable
\* storage, the magic words are not stored yet.
C3_Witness ==
    /\ wpc[1] = "s_magic"
    /\ disk.array = info.array
    /\ FieldsMatch(disk.header, info)
    /\ disk.header.s_magic = ZeroWord
    /\ info.chunk_count = MaxEntries


(***************************************************************************)
(* Properties of the chunk record.                                         *)
(***************************************************************************)
\* C10: every field that was set with a legal value reads back that value,
\* whatever the order of the setters and the previous content of the
\* record; add_v1 stores a record that reads back its four arguments; a
\* default record reads back offset 0 and size 1 in both words.
C10_SettersRoundTrip ==
    /\ \A f \in DOMAIN shadow :
         shadow[f].some => Quadruple(chunk)[f] = shadow[f].val
    /\ Len(ci_array) = Len(ci_args)
    /\ \A k \in 1..Len(ci_array) : Quadruple(ci_array[k]) = ci_args[k]
    /\ Quadruple(DefaultChunk) =
         [compressed_offset |-> {}, compressed_size |-> 1,
          uncompressed_offset |-> {}, uncompressed_size |-> 1]

\* All four fields of an all-ones record were set, the sizes last to 2^24
\* and 1, the offsets to their largest values; and add_v1 pushed a record.
C10_Witness ==
    /\ shadow.compressed_offset = Some(0..39)
    /\ shadow.compressed_size = Some(16777216)
    /\ shadow.uncompressed_offset = Some(12..43)
    /\ shadow.uncompressed_size = Some(1)
    /\ Len(ci_array) = 1

\* The ranges the setters must refuse: a compressed offset of 2^40 or more,
\* a size of 0 or above 2^24, an uncompressed offset that is not a multiple
\* of 4096 or is 2^52 or more.
CompressedOffsetOutOfRange(o) == o \cap (40..63) # {}

ChunkSizeOutOfRange(n) == n = 0 \/ n > 16777216

UncompressedOffsetOutOfRange(o) == o \cap (0..11) # {} \/ o \cap (52..63) # {}

OutOfRange(c) ==
    CASE c.op = "set_compressed_offset" -> CompressedOffsetOutOfRange(c.arg)
      [] c.op = "set_uncompressed_offset" -> UncompressedOffsetOutOfRange(c.arg)
      [] c.op \in {"set_compressed_size", "set_uncompressed_size"} ->
             ChunkSizeOutOfRange(c.arg)
      [] OTHER -> FALSE

C12_IsCompressedIsTopBit ==
    /\ is_compressed(chunk) <=> 63 \in chunk.uncomp_info
    /\ \A k \in 1..Len(ci_array) :
         is_compressed(ci_array[k]) <=> 63 \in ci_array[k].uncomp_info

\* C12, amended: is_compressed() is true exactly when the record's
\* compressed size differs from its uncompressed size: for a record whose
\* two sizes were set, for a record pushed by add_v1, and for the raw
\* records of test_get_chunks (the first compressed, the second not, bit 63
\* of uncomp_info clear in both).
C12_IsCompressedIffSizesDiffer ==
    /\ (shadow.compressed_size.some /\ shadow.uncompressed_size.some) =>
          (is_compressed(chunk) <=>
              shadow.compressed_size.val # shadow.uncompressed_size.val)
    /\ \A k \in 1..Len(ci_array) :
         is_compressed(ci_array[k]) <=>
             ci_args[k].compressed_size # ci_args[k].uncompressed_size
    /\ is_compressed([uncomp_info |-> {56}, comp_info |-> 44..55])
    /\ ~is_compressed([uncomp_info |-> {13} \cup (44..56), comp_info |-> {12} \cup (44..56)])

\* Both sizes of the all-ones record were set, to different values: the
\* record is compressed and bit 63 of its uncomp_info is clear.
C12_Witness ==
    /\ shadow.compressed_size = Some(256)
    /\ shadow.uncompressed_size = Some(1048577)
    /\ is_compressed(chunk)
    /\ 63 \notin chunk.uncomp_info
    /\ 43 \in chunk.uncomp_info


(***************************************************************************)
(* Properties of the blob writer.                                          *)
(***************************************************************************)
ReleasedInto(mode) ==
    /\ wcall.op = "release"
    /\ wcall.blob_stor.mode = mode

\* C13: in BlobsDir mode release(Some(name)) on a name an earlier build
\* left in the directory is not refused (it fails only if a file system
\* call fails), and when it succeeds the file of that name holds exactly
\* the bytes written through this writer and the writer's temp file is
\* gone.
C13_ReleaseOverwritesExisting ==
    (ReleasedInto("BlobsDir") /\ wcall.name.some /\ wcall.replaced.some) =>
        /\ wcall.fault = "none" => wret = Ok("unit")
        /\ wret.ok =>
              /\ wcall.name.val \in DOMAIN fs
              /\ fs[wcall.name.val] = appended
              /\ wcall.tmp_file.val \notin DOMAIN fs

\* The second build released two bytes into "x", where the first build
\* had left one byte.
C13_Witness ==
    /\ ReleasedInto("BlobsDir")
    /\ wcall.name = Some("x")
    /\ wcall.replaced = Some(<<1>>)
    /\ wret = Ok("unit")
    /\ fs["x"] = <<2, 2>>

\* C14: when no writer is alive (new failed, the build aborted, release
\* failed or succeeded) the storage holds no temp file; after a successful
\* release(Some(name)) in BlobsDir mode the renamed file is there, with
\* the bytes written.
C14_NoTempFileAfterDrop ==
    /\ writer = None => DOMAIN fs \cap TempNames = {}
    /\ (ReleasedInto("BlobsDir") /\ wcall.name.some /\ wret.ok) =>
          (wcall.name.val \in DOMAIN fs /\ fs[wcall.name.val] = appended)

\* A build in BlobsDir mode aborted after two writes and its writer was
\* dropped.
C14_Witness ==
    /\ wcall.op = "drop"
    /\ wcall.blob_stor.mode = "BlobsDir"
    /\ wcall.tmp_file.some
    /\ Len(appended) = 2
    /\ writer = None

(***************************************************************************)
(* Properties of the image build.                                          *)
(***************************************************************************)
\* The chunk references of the files dumped so far.
ChunkRefs ==
    UNION { { [node |-> n, pos |-> k, layer |-> nodes[n].layer,
               chunk |-> nodes[n].chunks[k]] : k \in 1..Len(nodes[n].chunks) } :
            n \in 1..Len(nodes) }

SameData(r1, r2) ==
    /\ r1.chunk.block_id = r2.chunk.block_id
    /\ r1.chunk.decompress_size = r2.chunk.decompress_size

SameChunk(r1, r2) ==
    /\ r1.chunk.blob_index = r2.chunk.blob_index
    /\ r1.chunk.index = r2.chunk.index

NoPayloadTwice(bytes) ==
    \A i, j \in 1..Len(bytes) : i # j => bytes[i] # bytes[j]

\* C15 as stated: in one build all references to the same data, from any
\* file of any layer, cite the same (blob_index, chunk_index).
C15_OnePayloadPerDigest ==
    \A r1, r2 \in ChunkRefs : SameData(r1, r2) => SameChunk(r1, r2)

\* C15: all references to the same data made by the files of one layer
\* cite the same (blob_index, chunk_index), and no blob file and no blob
\* writer holds the payload of a digest twice.
C15_OnePayloadPerDigestAndLayer ==
    /\ \A r1, r2 \in ChunkRefs :
          (r1.layer = r2.layer /\ SameData(r1, r2)) => SameChunk(r1, r2)
    /\ \A p \in DOMAIN fs : NoPayloadTwice(fs[p])
    /\ writer # None => NoPayloadTwice(writer.val.buffer)

\* Two files of one layer hold the same data, which the layer's blob got
\* once: the second file cites the chunk written for the first.
C15_Witness ==
    \E r1, r2 \in ChunkRefs :
        /\ r1.node < r2.node
        /\ r1.layer = r2.layer
        /\ SameData(r1, r2)
        /\ SameChunk(r1, r2)
        /\ r1.chunk.blob_index = bld.blob_of_layer[r1.layer + 1]
        /\ writer # None
        /\ writer.val.buffer = <<r1.chunk.block_id>>

EndedLayers == 0..(bld.layer - 1)

EmptyLayers ==
    { l \in EndedLayers :
        BlobAt(blob_mgr, bld.blob_of_layer[l + 1]).compressed_blob_size = 0 }

\* C17: once a layer that wrote no chunk has ended, no file of its blob is
\* left (no temp file, and every file of the blobs directory is the blob
\* of a layer that wrote chunks; in SingleFile mode the path is gone), and
\* no chunk reference cites the blob of that layer.
C17_EmptyLayerBlobDiscarded ==
    bld.phase \in {"layers", "done"} =>
        /\ DOMAIN fs \cap TempNames = {}
        /\ bld.blob_stor.mode = "BlobsDir" =>
              \A p \in DOMAIN fs :
                  \E l \in EndedLayers \ EmptyLayers :
                      p = BlobAt(blob_mgr, bld.blob_of_layer[l + 1]).blob_id
        /\ (bld.blob_stor.mode = "SingleFile" /\ bld.layer - 1 \in EmptyLayers) =>
              SingleFilePath \notin DOMAIN fs
        /\ \A l \in EmptyLayers, r \in ChunkRefs :
              r.chunk.blob_index # bld.blob_of_layer[l + 1]

\* Layer 0 wrote a chunk and layer 1, which holds one empty file, wrote
\* none: its blob is gone, the blob of layer 0 is there.
C17_Witness ==
    /\ bld.phase = "layers"
    /\ bld.blob_stor.mode = "BlobsDir"
    /\ bld.layer = 2
    /\ EmptyLayers = {1}
    /\ \E n \in 1..Len(nodes) : nodes[n].layer = 1 /\ nodes[n].i_size = 0
    /\ DOMAIN fs = {"sha_C2"}

\* The files all of whose data the chunk dictionary holds.
InDict(data) == \A k \in 1..Len(data) : data[k] \in DOMAIN DictChunks

\* The blob of the dictionary that holds the data of a chunk.
DictBlobOf(block_id) == DictBlobs[DictChunks[block_id].blob_index + 1]

\* Dumping a file appended nothing to the blob of the layer.
NoBytesAppended ==
    /\ writer' = writer
    /\ fs' = fs
    /\ BlobAt(blob_mgr', bld.blob_index) = BlobAt(blob_mgr, bld.blob_index)
    /\ chunk_cache' = chunk_cache

ParentIds == IF bld.parent THEN { ParentBlobTable[i].blob_id : i \in 1..Len(ParentBlobTable) } ELSE {}

DictOnlyIds == { DictBlobs[i].blob_id : i \in 1..Len(DictBlobs) } \ ParentIds

Origin(blob) ==
    IF blob.blob_id \in ParentIds THEN 0
    ELSE IF blob.blob_id \in DictOnlyIds THEN 1 ELSE 2

\* The blob tables written so far and the one the manager would write now.
BlobTables ==
    { bld.blob_tables[i] : i \in 1..Len(bld.blob_tables) } \cup { to_blob_table(blob_mgr) }

ParentDictNew(table) ==
    \A i, j \in 1..Len(table) : i < j => Origin(table[i]) <= Origin(table[j])

NewChunkRefs ==
    { r \in ChunkRefs :
        \E l \in 1..Len(bld.blob_of_layer) : r.chunk.blob_index = bld.blob_of_layer[l] }

\* C20: with aligned_chunk set, the uncompressed offset of every chunk
\* this build wrote is a multiple of 4096.
C20_AlignedUncompressedOffsets ==
    (bld.phase # "init" /\ bld.aligned_chunk) =>
        \A r \in NewChunkRefs : r.chunk.decompress_offset % 4096 = 0

(***************************************************************************)
(* Properties of the bootstrap.                                            *)
(***************************************************************************)
\* The chunk records that follow the record at position p, up to the next
\* inode record.
RECURSIVE ChunkRecordsAfter(_, _)
ChunkRecordsAfter(records, p) ==
    IF p + 1 > Len(records) \/ records[p + 1].kind # "chunk" THEN 0
    ELSE 1 + ChunkRecordsAfter(records, p + 1)

CeilDiv(n, d) == IF n % d = 0 THEN n \div d ELSE n \div d + 1

BadChunkSize(args) ==
    /\ args.chunk_size # None
    /\ \/ args.chunk_size.val < MIN_CHUNK_SIZE
       \/ args.chunk_size.val > RAFS_DEFAULT_CHUNK_SIZE
       \/ ~is_power_of_two(args.chunk_size.val)

BadBlobId(args) == args.blob_id # None /\ args.blob_id.val > BLOB_ID_MAXIMUM_LENGTH

BadSource(args) == args.source_type \in {"Directory", "Diff"} /\ args.source = "file"

Touched(name) == \E k \in 1..Len(cmd.io) : cmd.io[k].file = name

\* C22 as stated: when the input has a chunk size outside 0x1000..0x100000
\* or not a power of two, a blob id of more than 255 bytes, or a source
\* that is not a directory in directory or diff mode, create returns an
\* error and has opened, created or truncated no file.
C22_ErrorBeforeAnyFileOpened ==
    (/\ cmd.op = "create"
     /\ BadChunkSize(cmd.args) \/ BadBlobId(cmd.args) \/ BadSource(cmd.args))
        => ~cmd.ret.ok /\ cmd.io = <<>>

\* C22, amended: such an input makes create return an error before the
\* bootstrap is created or truncated; a bad chunk size or blob id is
\* reported before any file is opened, while with a source that is not a
\* directory the parent bootstrap, when one is named and exists, has
\* already been opened for reading, and nothing else.
C22_ErrorBeforeBootstrapCreated ==
    cmd.op = "create" =>
        /\ (BadChunkSize(cmd.args) \/ BadBlobId(cmd.args)) =>
              ~cmd.ret.ok /\ cmd.io = <<>>
        /\ BadSource(cmd.args) =>
              /\ ~cmd.ret.ok
              /\ ~Touched("bootstrap")
              /\ ~Touched("blob")
              /\ \A k \in 1..Len(cmd.io) :
                    cmd.io[k] = [op |-> "open_read", file |-> "parent_bootstrap"]
        /\ (BadSource(cmd.args) /\ ~BadChunkSize(cmd.args) /\ ~BadBlobId(cmd.args)
              /\ cmd.args.bootstrap /\ cmd.args.parent_bootstrap = "file")
             => Touched("parent_bootstrap")

\* A directory build of a source that is a file, with a parent bootstrap:
\* the error is the source's, and the parent bootstrap was opened.
C22_Witness ==
    /\ cmd.op = "create"
    /\ cmd.args.source_type = "Diff"
    /\ cmd.args.source = "file"
    /\ cmd.args.parent_bootstrap = "file"
    /\ cmd.ret = Err("source must be a directory")
    /\ cmd.io = << [op |-> "open_read", file |-> "parent_bootstrap"] >>

(***************************************************************************)
(* Properties of the skipped layers of a diff build.                       *)
(***************************************************************************)
SkippedNodes == { n \in 1..Len(nodes) : "parent_chunks" \in DOMAIN nodes[n] }

Returned(k) == state.chunks[ret.val[k].id + 1]

\* C24: in the result of a range query, every chunk that comes after the
\* requested range [start, start + size) is covered ends at or before
\* min(start + batch_size, declared size of the blob); and with
\* batch_size <= size the result is the minimal run covering the range:
\* it reaches start + size and every chunk after the first follows a chunk
\* that ends before start + size.
C24_AmplificationBoundedByBatch ==
    (IsRangeQuery /\ ret.ok) =>
        LET end == call.start + call.size
            limit == Min(call.start + call.batch_size,
                         DeclaredTotal(state, QueryCompressed))
        IN  /\ \A k \in 2..Len(ret.val) :
                  CoverHi(Returned(k - 1), QueryCompressed) >= end
                  => CoverHi(Returned(k), QueryCompressed) <= limit
            /\ call.batch_size <= call.size =>
                  /\ CoverHi(Returned(Len(ret.val)), QueryCompressed) >= end
                  /\ \A k \in 2..Len(ret.val) :
                        CoverHi(Returned(k - 1), QueryCompressed) < end

\* A query for one byte with a batch of 8192 returns the chunk holding the
\* byte and the next one, and leaves out the third chunk, which would end
\* past the batch.
C24_Witness ==
    /\ call.op = "get_chunks_uncompressed"
    /\ ~state.is_stargz
    /\ call.start = 0 /\ call.size = 1 /\ call.batch_size = 8192
    /\ ret.ok
    /\ Len(ret.val) = 2
    /\ Len(state.chunks) = 3
    /\ state.chunks[3].uncompressed_offset = 8192
    /\ validate_chunk(state, state.chunks[3]).ok

(***************************************************************************)
(* Properties of the queries on stargz blobs.                              *)
(***************************************************************************)
\* A query without amplification on a stargz blob that has nothing to fail
\* on but gaps and the compressed total: the range is inside the blob,
\* start is inside a chunk, a chunk at or after it reaches start + size,
\* and the chunks up to that one end inside the uncompressed total.
StargzQueryCanSucceed(compressed) ==
    /\ state.is_stargz
    /\ call.batch_size <= call.size
    /\ ~RangeOutOfBlob
    /\ \E i \in Covering(state, call.start, compressed) :
          \E j \in i..(Len(state.chunks) - 1) :
             /\ CoverHi(state.chunks[j + 1], compressed) >= call.start + call.size
             /\ \A m \in i..j :
                   state.chunks[m + 1].uncompressed_offset
                     + state.chunks[m + 1].uncompressed_size <= state.uncompressed_size

RECURSIVE CompressedBytes(_, _)
CompressedBytes(vec, from) ==
    IF from > Len(vec) THEN 0
    ELSE state.chunks[vec[from].id + 1].compressed_size + CompressedBytes(vec, from + 1)

\* C26: a list returned by add_more_chunks(tail, max) starts with tail;
\* each appended chunk has the index after its predecessor's and starts
\* at its predecessor's compressed end; the appended chunks have at most
\* max compressed bytes in all and end inside the declared compressed size.
C26_AppendedChunksContiguousWithinMax ==
    (call.op = "add_more_chunks" /\ ret.some) =>
        LET vec == ret.val
            n == Len(call.chunks)
        IN  /\ Len(vec) >= n
            /\ SubSeq(vec, 1, n) = call.chunks
            /\ \A k \in (n + 1)..Len(vec) :
                  LET c == state.chunks[vec[k].id + 1]
                      prev == state.chunks[vec[k - 1].id + 1]
                  IN  /\ vec[k].id = vec[k - 1].id + 1
                      /\ vec[k].blob_index = state.blob_index
                      /\ c.compressed_offset = prev.compressed_offset + prev.compressed_size
                      /\ c.compressed_offset + c.compressed_size <= state.compressed_size
            /\ CompressedBytes(vec, n + 1) <= call.max_size

\* One chunk of 4096 bytes was appended with max = 4096; the chunk after
\* it follows without a gap and was left out.
C26_Witness ==
    /\ call.op = "add_more_chunks"
    /\ call.max_size = 4096
    /\ Len(call.chunks) = 1
    /\ call.chunks[1].id = 0
    /\ ret.some
    /\ Len(ret.val) = 2
    /\ Len(state.chunks) = 3
    /\ state.chunks[3].compressed_offset
         = state.chunks[2].compressed_offset + state.chunks[2].compressed_size
    /\ validate_chunk(state, state.chunks[3]).ok


(***************************************************************************)
(* Properties of one turn of the chunker.  They are stated for every file  *)
(* the current layer could dump next, at each of its chunks.               *)
(***************************************************************************)
\* The state dump_blob is in before chunk i of the file.
RECURSIVE StateBefore(_, _)
StateBefore(node, i) ==
    IF i = 0 THEN DumpState(node)
    ELSE dump_chunk(node, i - 1, StateBefore(node, i - 1), bld.blob_index)

StateAfter(node, i) == dump_chunk(node, i, StateBefore(node, i), bld.blob_index)

\* The slice's digest is in the chunk cache with a size that fits, and the
\* dictionary does not have it.
CacheHit(node, i) ==
    LET pre == StateBefore(node, i)
        d == node.data[i + 1]
    IN  /\ ~(pre.dict.present /\ d \in DOMAIN DictChunks)
        /\ d \in DOMAIN pre.chunk_cache
        /\ pre.chunk_cache[d].decompress_size \in {0, SliceSize(node, i)}

\* C27: on a hit in the chunk cache, the record pushed to the node's chunk
\* list is the cached record with file_offset set to the slice's offset
\* in the file, and nothing else changes: the blob writer, the blob hash,
\* the two cursors, the chunk count and the chunk cache are as before.
C27_CacheHitOnlyPushesRecord ==
    bld.phase = "chunk" =>
        \A data \in Files :
            LET node == NewNode(bld.layer, data)
            IN  \A i \in 0..(node.i_child_count - 1) :
                    CacheHit(node, i) =>
                        LET pre == StateBefore(node, i)
                            cached == pre.chunk_cache[data[i + 1]]
                            pushed == [block_id |-> cached.block_id,
                                       blob_index |-> cached.blob_index,
                                       index |-> cached.index,
                                       compressed |-> cached.compressed,
                                       compress_size |-> cached.compress_size,
                                       decompress_size |-> cached.decompress_size,
                                       compress_offset |-> cached.compress_offset,
                                       decompress_offset |-> cached.decompress_offset,
                                       file_offset |-> i * RAFS_DEFAULT_BLOCK_SIZE]
                        IN  StateAfter(node, i) =
                                [pre EXCEPT !.chunks = Append(@, pushed),
                                            !.inode_hasher = Append(@, data[i + 1])]

\* A file of twice the same chunk was dumped in a build without
\* dictionary: its second record is the first one at the next file
\* offset, and the blob holds the chunk once.
C27_Witness ==
    /\ bld.phase = "chunk"
    /\ ~bld.dict
    /\ Len(nodes) = 1
    /\ nodes[1].data = <<"C1", "C1">>
    /\ Len(nodes[1].chunks) = 2
    /\ nodes[1].chunks[2] = [nodes[1].chunks[1] EXCEPT !.file_offset = RAFS_DEFAULT_BLOCK_SIZE]
    /\ BlobAt(blob_mgr, bld.blob_index).compress_offset = nodes[1].chunks[1].compress_size
    /\ CacheHit(NewNode(bld.layer, <<"C1", "C2">>), 0)


\* The slice's digest is neither in the dictionary nor in the chunk cache.
CacheMiss(node, i) ==
    LET pre == StateBefore(node, i)
        d == node.data[i + 1]
    IN  /\ ~(pre.dict.present /\ d \in DOMAIN DictChunks)
        /\ d \notin DOMAIN pre.chunk_cache

\* The number of bytes of a run of payloads.
RECURSIVE BytesOf(_)
BytesOf(payloads) ==
    IF payloads = <<>> THEN 0
    ELSE compress(Head(payloads)).len + BytesOf(Tail(payloads))

\* The records of the chunks written to the blob in slot idx.
WrittenTo(idx) == { r.chunk : r \in { x \in ChunkRefs : x.chunk.blob_index = idx } }

CachedCopy(d) ==
    [OndiskChunkInfo_new EXCEPT !.block_id = d,
                                !.blob_index = bld.blob_index,
                                !.compressed = compress(d).is_compressed,
                                !.compress_size = compress(d).len,
                                !.decompress_size = DataLen(d)]

ExtendedFrom(mgr, r) ==
    LET owned == { b \in 1..Len(DictBlobs) :
                      get_blob_idx_by_id(mgr, DictBlobs[b].blob_id).some }
        added == (1..Len(DictBlobs)) \ owned
        real(b) == r.dict.real_blob_idx[DictBlobs[b].blob_index]
    IN  /\ \A b \in 1..Len(DictBlobs) :
              DictBlobs[b].blob_index \in DOMAIN r.dict.real_blob_idx
        /\ \A b \in owned :
              real(b) = get_blob_idx_by_id(mgr, DictBlobs[b].blob_id).val
        /\ \A b \in added :
              /\ real(b) >= Len(mgr.blobs)
              /\ real(b) < Len(r.mgr.blobs)
              /\ BlobAt(r.mgr, real(b)) =
                    [BlobContext_new(DictBlobs[b].blob_id) EXCEPT
                        !.chunk_count = DictBlobs[b].chunk_count,
                        !.decompressed_blob_size = DictBlobs[b].blob_cache_size,
                        !.compressed_blob_size = DictBlobs[b].compressed_blob_size]
              /\ \A b2 \in added : b < b2 => real(b) < real(b2)
        /\ Len(r.mgr.blobs) = Len(mgr.blobs) + Cardinality(added)
        /\ \A i \in 1..Len(mgr.blobs) : r.mgr.blobs[i] = mgr.blobs[i]

\* C30: after extend_blob_table_from_chunk_dict every blob of the chunk
\* dictionary has a real index: a blob whose id the manager already owns
\* is mapped to the owned blob's index and adds no context; any other one
\* gets a new slot at the end of the list, made of the dictionary's chunk
\* count and sizes; and the blobs owned before the call keep their
\* indexes.  This holds for the call the builder makes after the import of
\* the parent bootstrap, and for a call on any manager a build reaches.
C30_ExtendMapsEveryDictBlob ==
    /\ (bld.phase = "layers" /\ bld.layer = 0 /\ bld.extend_first) =>
          ExtendedFrom(IF bld.parent
                       THEN from_blob_table(BlobManager_new, ParentBlobTable)
                       ELSE BlobManager_new,
                       [mgr |-> blob_mgr, dict |-> chunk_dict])
    /\ chunk_dict.present =>
          ExtendedFrom(blob_mgr, extend_blob_table_from_chunk_dict(blob_mgr, chunk_dict))

\* The blob table was extended after the import of a parent that owns the
\* dictionary's first blob: that blob is mapped to the parent's slot 0, the
\* other one to the new slot 2 behind the parent's two blobs.
C30_Witness ==
    /\ bld.phase = "layers"
    /\ bld.layer = 0
    /\ bld.extend_first
    /\ bld.parent
    /\ [i \in 1..3 |-> blob_mgr.blobs[i].blob_id] = <<"p0", "p1", "a1">>
    /\ Len(blob_mgr.blobs) = 3
    /\ chunk_dict.real_blob_idx = [k \in {0, 1} |-> IF k = 0 THEN 0 ELSE 2]
    /\ blob_mgr.blobs[3].chunk_count = 1
    /\ blob_mgr.blobs[3].compressed_blob_size = 1000


\* C31: blob indexes are handed out append-only.  alloc_index returns the
\* number of contexts, and fails only when that number does not fit the
\* counter; a context that was added is in the slot alloc_index returned,
\* it is the last one and the one current() returns; add and
\* extend_blob_table_from_chunk_dict leave every context that was there
\* before in its slot; and to_blob_table lists the contexts slot by slot.
C31_BlobIndexesAppendOnly ==
    /\ [](/\ cmd.op = "add" =>
                /\ cmd.ret.val = Len(blob_mgr.blobs) - 1
                /\ cmd.ret.val <= U32_MAX
                /\ BlobAt(blob_mgr, cmd.ret.val) = cmd.ctx
                /\ current(blob_mgr) = Some(cmd.ctx)
          /\ cmd.op = "alloc_index" =>
                /\ ~cmd.ret.ok
                /\ Len(blob_mgr.blobs) > U32_MAX
          /\ cmd.op \in {"new", "from_blob_table", "set_chunk_dict", "add",
                         "alloc_index", "extend", "chunk_index", "panic"} =>
                LET table == to_blob_table(blob_mgr)
                IN  /\ Len(table) = Len(blob_mgr.blobs)
                    /\ \A i \in 1..Len(table) :
                          /\ table[i].blob_id = blob_mgr.blobs[i].blob_id
                          /\ table[i].chunk_count = blob_mgr.blobs[i].chunk_count)
    /\ [][cmd'.op \in {"add", "alloc_index", "extend", "panic"} =>
              /\ Len(blob_mgr'.blobs) >= Len(blob_mgr.blobs)
              /\ \A i \in 1..Len(blob_mgr.blobs) :
                    blob_mgr'.blobs[i] = blob_mgr.blobs[i]]_vars

\* After the import of the parent's two blobs a context was added, and
\* then the blob table was extended from the dictionary: the added context
\* is still in slot 2, behind the parent's blobs and in front of the
\* dictionary's new blob.
C31_Witness ==
    /\ cmd.op = "extend"
    /\ [i \in 1..Len(blob_mgr.blobs) |-> blob_mgr.blobs[i].blob_id]
         = <<"p0", "p1", "", "a1">>
    /\ to_blob_table(blob_mgr)[3].blob_id = ""


\* C32: a new context has chunk count 0, and each alloc_index on a context
\* whose chunk count is below U32_MAX returns that count and raises it by
\* one, so successive calls return 0, 1, 2, ... and the chunk count is the
\* number of calls that succeeded; at U32_MAX the call fails and leaves
\* the chunk count as it is.
C32_ChunkIndexesCountUpToLimit ==
    /\ [](/\ cmd.op = "add" => cmd.ctx.chunk_count = 0
          /\ cmd.op = "chunk_index" =>
                LET count == current(blob_mgr).val.chunk_count
                IN  /\ count <= U32_MAX
                    /\ cmd.ret.ok => cmd.ret.val = count - 1
                    /\ ~cmd.ret.ok => count = U32_MAX)
    /\ [][cmd'.op = "chunk_index" =>
              LET before == current(blob_mgr).val.chunk_count
                  after == current(blob_mgr').val.chunk_count
              IN  IF before < U32_MAX
                  THEN cmd'.ret = Ok(before) /\ after = before + 1
                  ELSE ~cmd'.ret.ok /\ after = before]_vars

\* The context handed out the indexes 0 to U32_MAX - 1, and the next call
\* failed.
C32_Witness ==
    /\ cmd.op = "chunk_index"
    /\ ~cmd.ret.ok
    /\ Len(blob_mgr.blobs) = 1
    /\ blob_mgr.blobs[1].blob_id = ""
    /\ current(blob_mgr).val.chunk_count = U32_MAX


(***************************************************************************)
(* Properties of the slicing and of the inode digest.                      *)
(***************************************************************************)
RECURSIVE SumOfSizes(_)
SumOfSizes(chunks) ==
    IF chunks = <<>> THEN 0
    ELSE Head(chunks).decompress_size + SumOfSizes(Tail(chunks))

\* C33: when create accepted the arguments, every regular file is sliced
\* with the chunk size they configure: chunk i is at file offset
\* i * chunk_size, every slice but the last has that length, the last one
\* has what is left, and the lengths add up to the file's size.
C33_SlicesOfConfiguredSize ==
    (cmd.op = "create" /\ cmd.ret.ok) =>
        LET chunk_size == get_chunk_size(cmd.args).val
        IN  \A data \in Files :
                LET node == NewNode(0, data)
                    chunks == dump_blob(node, NewBlobState, 0).chunks
                    n == Len(chunks)
                IN  /\ SumOfSizes(chunks) = node.i_size
                    /\ \A i \in 0..(n - 1) :
                          /\ chunks[i + 1].file_offset = i * chunk_size
                          /\ chunks[i + 1].decompress_size =
                                IF i < n - 1 THEN chunk_size
                                ELSE node.i_size - (n - 1) * chunk_size


\* C34: the inode digest of a dumped file is the hash of the digests of
\* its chunks in file order and of nothing else: every file a layer dumped
\* has it, and so has every file the layer could dump next, whatever the
\* chunk cache, the dictionary and its index map, the cursors and the
\* chunk count of the blob are in the state reached, and whatever blob
\* index the chunker is given.
C34_InodeDigestOfChunkDigests ==
    /\ \A n \in 1..Len(nodes) :
          nodes[n].i_digest.final =>
              nodes[n].i_digest = [hashed |-> nodes[n].data, final |-> TRUE]
    /\ bld.phase = "chunk" =>
          \A data \in Files :
              \A blob_index \in 0..Len(blob_mgr.blobs) :
                  LET node == NewNode(bld.layer, data)
                      st == dump_blob(node, DumpState(node), blob_index)
                  IN  /\ Len(st.chunks) = Len(data)
                      /\ digest_finalize(st.inode_hasher)
                           = [hashed |-> [k \in 1..Len(data) |-> st.chunks[k].block_id],
                              final |-> TRUE]
                      /\ digest_finalize(st.inode_hasher)
                           = [hashed |-> data, final |-> TRUE]

\* The same two chunks were dumped as a file of the first and as a file of
\* the second layer, with a dictionary that has the first chunk: the
\* second chunk was written to two blobs, so the chunk records differ,
\* and the inode digests are the same.
C34_Witness ==
    /\ Len(nodes) = 2
    /\ bld.dict
    /\ nodes[1].data = <<"C1", "C2">>
    /\ nodes[2].data = <<"C1", "C2">>
    /\ nodes[1].layer # nodes[2].layer
    /\ nodes[1].chunks[2].blob_index # nodes[2].chunks[2].blob_index
    /\ nodes[1].i_digest.final
    /\ nodes[1].i_digest = nodes[2].i_digest


(***************************************************************************)
(* Properties of the bootstrap's write offset.                             *)
(***************************************************************************)
\* C35: the write offset starts at 4096 and is never below it, and
\* align_offset(n) leaves the smallest multiple of n that is not below the
\* offset it found: it never lowers the offset, raises it by less than n,
\* leaves an aligned offset alone, and changes nothing when called again.
C35_AlignOffsetRoundsUp ==
    /\ bootstrap.op = "new" => bootstrap.offset = 4096
    /\ bootstrap.op \in {"new", "align_offset", "write"} => bootstrap.offset >= 4096
    /\ bootstrap.op = "align_offset" =>
          LET n == bootstrap.align_size
              old == bootstrap.before
              new == bootstrap.offset
          IN  /\ new % n = 0
              /\ new >= old
              /\ new - old < n
              /\ \A m \in old..new : m % n = 0 => m = new
              /\ old % n = 0 => new = old
              /\ align_offset(new, n) = new

\* After some writes the offset 4121 was aligned to 64 and became 4160.
C35_Witness ==
    /\ bootstrap.op = "align_offset"
    /\ bootstrap.align_size = 64
    /\ bootstrap.before = 4121
    /\ bootstrap.offset = 4160


\* C36 as stated: after release(Some(name)) of a BlobsDir writer onto a
\* name that held a blob, however the call ended, dir/name holds the
\* previous blob or the new one.
C36_ReleaseNeverLosesBlob ==
    (ReleasedInto("BlobsDir") /\ wcall.name.some /\ wcall.replaced.some) =>
        /\ wcall.name.val \in DOMAIN fs
        /\ fs[wcall.name.val] \in {wcall.replaced.val, appended}

\* C36, amended: at every point of release(Some(name)) of a BlobsDir
\* writer, and in the state any failing step leaves, dir/name is either
\* missing, or the complete blob that was there before the call, or the
\* complete new blob; it is missing only before the rename, when no blob
\* was there or after the removal of the one that was; and when the call
\* succeeds dir/name is the new blob.
C36_ReleaseNeverShowsPartialBlob ==
    /\ (ReleasedInto("BlobsDir") /\ wcall.name.some) =>
          /\ wcall.name.val \in DOMAIN fs =>
                \/ wcall.replaced.some /\ fs[wcall.name.val] = wcall.replaced.val
                \/ fs[wcall.name.val] = appended
          /\ wret.ok => (wcall.name.val \in DOMAIN fs /\ fs[wcall.name.val] = appended)
    /\ (writer # None /\ writer.val.blob_stor.mode = "BlobsDir") =>
          \A n \in BlobIds, fault \in {"none", "flush", "remove_file", "rename"} :
              LET steps == release_steps(fs, writer.val, Some(n), fault)
                  r == release(fs, writer.val, Some(n), fault)
              IN  /\ steps[Len(steps)] = r.files
                  /\ r.ret.ok <=> Len(steps) = 5
                  /\ \A k \in 1..Len(steps) :
                        /\ n \in DOMAIN steps[k] =>
                              \/ n \in DOMAIN fs /\ steps[k][n] = fs[n]
                              \/ steps[k][n] = appended
                        /\ k <= 2 => (n \in DOMAIN steps[k] <=> n \in DOMAIN fs)
                        /\ (k >= 4 /\ r.ret.ok) =>
                              (n \in DOMAIN steps[k] /\ steps[k][n] = appended)

\* The second build released onto "x", where the first build had left a
\* blob; the rename failed after the removal, and "x" is gone.
C36_Witness ==
    /\ ReleasedInto("BlobsDir")
    /\ wcall.name = Some("x")
    /\ wcall.replaced = Some(<<1>>)
    /\ wcall.fault = "rename"
    /\ ~wret.ok
    /\ "x" \notin DOMAIN fs
    /\ appended = <<2>>


(***************************************************************************)
(* Properties of the binary search.                                        *)
(***************************************************************************)
\* The blob with only its first n chunks.
FirstChunks(st, n) == [st EXCEPT !.chunks = SubSeq(@, 1, n), !.chunk_count = n]

\* The largest number of turns a search among n chunks takes.
RECURSIVE MaxTurns(_)
MaxTurns(n) == IF n = 0 THEN 0 ELSE 1 + MaxTurns(n \div 2)

\* C37: get_chunk_index_nocheck terminates and reads inside the array.
\* For the blob and for each of its prefixes, the empty one included, and
\* for every address, each turn of the loop has size = right - left and
\* reads the index mid with left <= mid < right <= chunk_count, the next
\* turn searches a strictly smaller range, and there are at most
\* log2(chunk_count) + 1 turns.
C37_SearchReadsInBounds ==
    \A n \in 0..state.chunk_count, compressed \in BOOLEAN :
        LET st == FirstChunks(state, n)
        IN  \A addr \in Points(state, compressed) \cup {U64_MAX} :
                LET probes == BsearchProbes(st, 0, st.chunk_count, st.chunk_count,
                                            addr, compressed)
                    found == get_chunk_index_nocheck(st, addr, compressed)
                IN  /\ Len(probes) <= MaxTurns(n)
                    /\ n = 0 => (probes = <<>> /\ ~found.ok)
                    /\ \A k \in 1..Len(probes) :
                          /\ probes[k].size = probes[k].right - probes[k].left
                          /\ 0 <= probes[k].left
                          /\ probes[k].left <= probes[k].mid
                          /\ probes[k].mid < probes[k].right
                          /\ probes[k].right <= st.chunk_count
                          /\ k < Len(probes) =>
                                probes[k + 1].size < probes[k].size
                    /\ found.ok => found.val = probes[Len(probes)].mid

\* A search among three chunks that took two turns, reading index 1 and
\* then index 2, and found the last chunk.
C37_Witness ==
    /\ call.op = "get_chunk_index_nocheck"
    /\ state.chunk_count = 3
    /\ ret = Ok(2)
    /\ LET probes == BsearchProbes(state, 0, 3, 3, call.addr, call.compressed)
       IN  /\ Len(probes) = 2
           /\ probes[1].mid = 1
           /\ probes[2].mid = 2


(***************************************************************************)
(* Properties of batch_size.                                               *)
(***************************************************************************)
\* A range query was made.
RangeQueried == call.op \in {"get_chunks_uncompressed", "get_chunks_compressed"}

\* The range query that was made, with another batch_size.
QueryWithBatch(batch_size) ==
    IF call.op = "get_chunks_uncompressed"
    THEN get_chunks_uncompressed(state, call.start, call.size, batch_size)
    ELSE get_chunks_compressed(state, call.start, call.size, batch_size)

IsPrefixOf(s, t) == Len(s) <= Len(t) /\ SubSeq(t, 1, Len(s)) = s

\* C38 as stated: when a range query succeeds, the same query with any
\* larger batch_size succeeds too and returns the first result and
\* possibly more chunks behind it.
C38_LargerBatchNeverFails ==
    (RangeQueried /\ ret.ok) =>
        \A b \in BatchSizes :
            b >= call.batch_size =>
                /\ QueryWithBatch(b).ok
                /\ IsPrefixOf(ret.val, QueryWithBatch(b).val)

\* start + batch_size does not fit the u64: "unwrap_or(end)".
BatchOverflows == ~checked_add(call.start, call.batch_size).some

\* C38, amended: when a range query succeeds with a batch_size that start
\* + batch_size does not overflow with, the same query with any smaller
\* batch_size succeeds too and returns a prefix of the result; a
\* batch_size that is not above size, or that overflows, is as good as
\* none.
C38_SmallerBatchReturnsPrefix ==
    RangeQueried =>
        /\ (ret.ok /\ ~BatchOverflows) =>
              \A b \in BatchSizes \cup {call.size} :
                  b <= call.batch_size =>
                      /\ QueryWithBatch(b).ok
                      /\ IsPrefixOf(QueryWithBatch(b).val, ret.val)
        /\ (call.batch_size <= call.size \/ BatchOverflows) =>
              ret = QueryWithBatch(0)

\* A range query with a batch_size above its size returns more chunks than
\* the same query without batch, behind the chunks of that query.
C38_Witness ==
    /\ RangeQueried
    /\ call.batch_size > call.size
    /\ ~BatchOverflows
    /\ ret.ok
    /\ QueryWithBatch(0).ok
    /\ Len(QueryWithBatch(0).val) < Len(ret.val)
    /\ IsPrefixOf(QueryWithBatch(0).val, ret.val)


(***************************************************************************)
(* Properties of concurrent creators of one meta file.                     *)
(***************************************************************************)
\* The last read-only open returned Ok: it observed the file as ready.
OpenedReady == rres = Ok("BlobMetaInfo")

\* A creator found the header invalid and has not zeroed it yet.
AboutToFill == \E w \in DOMAIN wpc : wpc[w] = "fill"

\* C39 as stated: with several creators on the same file, once a read-only
\* open has observed the file as ready every later read-only open observes
\* it as ready, and the array seen by a client that opened successfully
\* never changes.
C39_ReadyStaysReadyForOpens ==
    /\ [][OpenedReady => OpenedReady']_vars
    /\ [][OpenedReady => file'.array = file.array]_vars

\* C39, amended: with several creators on the same file, the array seen by
\* a client that opened successfully is the blob's array and never changes,
\* and a valid header stays valid unless a creator that found the header
\* invalid before has still to zero it; that creator makes the file
\* not ready again until it, or another creator, has stored both magic
\* words.
C39_ArrayStableReadyUnlessRefill ==
    /\ [](OpenedReady => file.array = info.array)
    /\ [][file.array = info.array => file'.array = file.array]_vars
    /\ [][(HeaderValid(file.header, info) /\ ~AboutToFill)
            => (HeaderValid(file'.header, info) /\ ~AboutToFill')]_vars
    /\ [][(HeaderValid(file.header, info) /\ ~HeaderValid(file'.header, info))
            => (\E w \in DOMAIN wpc : wpc[w] = "fill" /\ wpc'[w] # "fill")]_vars

\* A read-only open succeeded, a second creator zeroed the header after
\* that, and the next read-only open found the file not ready, with the
\* array in place.
C39_Witness ==
    /\ rpc = "done" /\ rmapped
    /\ rres = Err("enoent")
    /\ \E w \in DOMAIN wpc : wpc[w] = "done" /\ wres[w].ok
    /\ \E w \in DOMAIN wpc : wpc[w] = "read_metadata"
    /\ ~HeaderValid(file.header, info)
    /\ file.array = info.array


(***************************************************************************)
(* Properties of the size of the pushed records.                           *)
(***************************************************************************)
\* A record of the chunk cache for digest d that records a zero
\* decompress size: "hole cached_chunk can have zero decompress size".
HoleCopy(d) ==
    [OndiskChunkInfo_new EXCEPT !.block_id = d, !.blob_index = bld.blob_index]

\* The chunker's state before chunk i of the node, with the cache as it
\* is and with a hole record for the chunk's digest in the cache.
StatesBefore(node, i) ==
    LET pre == StateBefore(node, i)
    IN  { pre,
          [pre EXCEPT !.chunk_cache =
              chunk_cache_insert(@, node.data[i + 1], HoleCopy(node.data[i + 1]))] }

\* The record one turn of the loop pushes.
PushedBy(node, i, st) ==
    LET out == dump_chunk(node, i, st, bld.blob_index)
    IN  out.chunks[Len(out.chunks)]

\* C40 as stated: every record the chunker pushes, on a hit as on a miss,
\* has a decompress size equal to the length of its slice, also when the
\* entry found records a zero size.
C40_PushedSizeIsSliceLength ==
    bld.phase = "chunk" =>
        \A data \in Files :
            LET node == NewNode(bld.layer, data)
            IN  \A i \in 0..(node.i_child_count - 1) :
                    \A st \in StatesBefore(node, i) :
                        PushedBy(node, i, st).decompress_size = SliceSize(node, i)

\* C40, amended: every turn of the chunker pushes one record at the
\* slice's file offset.  On a miss, and on a hit whose entry records the
\* length of the slice, its decompress size is the length of the slice,
\* which is not zero; on a hit whose entry records a zero size, the record
\* pushed has a zero decompress size too, as it is a copy of the entry.
C40_PushedSizeIsSliceLengthOrZero ==
    bld.phase = "chunk" =>
        \A data \in Files :
            LET node == NewNode(bld.layer, data)
            IN  \A i \in 0..(node.i_child_count - 1) :
                    \A st \in StatesBefore(node, i) :
                        LET d == data[i + 1]
                            pushed == PushedBy(node, i, st)
                            in_dict == get_chunk(st.dict, d).some
                            hole == /\ ~in_dict
                                    /\ d \in DOMAIN st.chunk_cache
                                    /\ st.chunk_cache[d].decompress_size = 0
                        IN  /\ SliceSize(node, i) > 0
                            /\ Len(dump_chunk(node, i, st, bld.blob_index).chunks)
                                 = Len(st.chunks) + 1
                            /\ pushed.file_offset = i * RAFS_DEFAULT_BLOCK_SIZE
                            /\ pushed.block_id = d
                            /\ pushed.decompress_size =
                                 IF hole THEN 0 ELSE SliceSize(node, i)
                            /\ hole => pushed = [st.chunk_cache[d] EXCEPT
                                          !.file_offset = i * RAFS_DEFAULT_BLOCK_SIZE]

\* A file of twice the same chunk was dumped, its second record being a
\* reused one of the slice's length; and with a hole record for "C2" in
\* the chunk cache, the record pushed for a file of the 5 bytes of "C2"
\* has a zero decompress size.
C40_Witness ==
    /\ bld.phase = "chunk"
    /\ ~bld.dict
    /\ Len(nodes) = 1
    /\ nodes[1].data = <<"C1", "C1">>
    /\ nodes[1].chunks[2].decompress_size = RAFS_DEFAULT_BLOCK_SIZE
    /\ nodes[1].chunks[2].file_offset = RAFS_DEFAULT_BLOCK_SIZE
    /\ "C2" \notin DOMAIN chunk_cache
    /\ LET node == NewNode(bld.layer, <<"C2">>)
       IN  /\ SliceSize(node, 0) = 5
           /\ \E st \in StatesBefore(node, 0) :
                /\ "C2" \in DOMAIN st.chunk_cache
                /\ st.chunk_cache["C2"].decompress_size = 0
                /\ PushedBy(node, 0, st).decompress_size = 0

=============================================================================
